---- MODULE Spec2Model ----
(***************************************************************************)
(* State-machine model of the per-guild playback orchestrator of sacudo    *)
(* (src/bot.py): the queue and fix_queue, play_next and its lock, the      *)
(* start branch of handle_play_request, handle_playlist, preload_next_song,*)
(* the skip/pause/resume/stop handlers, the debug command and the voice    *)
(* state handler.  One guild is modelled.  asyncio is cooperative: every   *)
(* action below is the code that runs between two suspension points        *)
(* (await of the resolver, of a sleep, of a Discord message call).         *)
(***************************************************************************)
EXTENDS Integers, Sequences, FiniteSets, Bags, TLC

\* ------------------------------------------------------------------ bounds
MaxQueue == 2
MaxTasks == 2
MaxFixLen == 3

\* ------------------------------------------------------- values and inputs
\* The null player (Python None where a YTDLSource is expected) and the null
\* URL (Python None where a string is expected).
None == [url |-> "None", title |-> "None"]
NoUrl == "None"

\* Canonical page URLs (data['webpage_url']) of the tracks of the model.
Urls == {"A", "B"}
\* Free-text searches; from_url turns them into "ytsearch:<text>".
Searches == {"qA"}
\* Everything a queue entry can be: fix_queue is explored over all of them.
Requests == Urls \cup Searches
\* The requests the play command is given in the orchestrator's runs.
PlayInputs == Urls

\* Playlists handed to handle_playlist: the entry URLs yt-dlp reports.
Playlists == {<<"B", "B">>, <<"A", "B">>}

\* Messages of YTDLError that the handlers tell apart.
ErrKinds == {"format", "removed", "other"}

\* YTDLSource.is_url: text starting with http(s):// or a known host.
is_url(text) == text \in Urls

\* data.get('title') of the extracted entry.
TitleOf(url) ==
  IF url = "A" THEN "tA" ELSE "tB"

\* data.get('webpage_url') of what yt-dlp extracts for a request: a URL is
\* its own page, a search yields the page of its first result.
WebpageUrl(url_or_search) ==
  IF is_url(url_or_search) THEN url_or_search ELSE "A"

\* YTDLSource.from_url on success: the source object with .url and .title.
from_url(url_or_search) ==
  [url |-> WebpageUrl(url_or_search), title |-> TitleOf(WebpageUrl(url_or_search))]

Players == {from_url(r) : r \in Requests}

\* -------------------------------------------------------------- fix_queue
\* fix_queue's loop without the unique_urls test.
RECURSIVE fix_loop_no_unique_check(_, _, _, _, _)
fix_loop_no_unique_check(q, i, current_song_url, new_queue, unique_urls) ==
  IF i >= Len(q) THEN new_queue
  ELSE LET url == q[i + 1] IN
    IF current_song_url # NoUrl /\ url = current_song_url /\ i > 0
      THEN fix_loop_no_unique_check(q, i + 1, current_song_url, new_queue,
                                    unique_urls)
    ELSE fix_loop_no_unique_check(q, i + 1, current_song_url,
                                  Append(new_queue, url), unique_urls)

\* fix_queue's loop without the exception for the first entry.
RECURSIVE fix_loop_drops_head(_, _, _, _, _)
fix_loop_drops_head(q, i, current_song_url, new_queue, unique_urls) ==
  IF i >= Len(q) THEN new_queue
  ELSE LET url == q[i + 1] IN
    IF current_song_url # NoUrl /\ url = current_song_url
      THEN fix_loop_drops_head(q, i + 1, current_song_url, new_queue,
                               unique_urls)
    ELSE IF url \notin unique_urls
      THEN fix_loop_drops_head(q, i + 1, current_song_url,
                               Append(new_queue, url), unique_urls \cup {url})
    ELSE fix_loop_drops_head(q, i + 1, current_song_url, new_queue,
                             unique_urls)

\* fix_queue's loop with the index test reversed: an entry equal to the
\* current song's URL is skipped at the head only.
RECURSIVE fix_loop_skips_head_only(_, _, _, _, _)
fix_loop_skips_head_only(q, i, current_song_url, new_queue, unique_urls) ==
  IF i >= Len(q) THEN new_queue
  ELSE LET url == q[i + 1] IN
    IF current_song_url # NoUrl /\ url = current_song_url /\ i = 0
      THEN fix_loop_skips_head_only(q, i + 1, current_song_url, new_queue,
                                    unique_urls)
    ELSE IF url \notin unique_urls
      THEN fix_loop_skips_head_only(q, i + 1, current_song_url,
                                    Append(new_queue, url), unique_urls \cup {url})
    ELSE fix_loop_skips_head_only(q, i + 1, current_song_url, new_queue,
                                  unique_urls)

\* The loop of fix_queue: i is the 0-based index of the entry looked at,
\* new_queue and unique_urls the accumulators of the code.
RECURSIVE fix_loop(_, _, _, _, _)
fix_loop(q, i, current_song_url, new_queue, unique_urls) ==
  IF i >= Len(q) THEN new_queue
  ELSE LET url == q[i + 1] IN
    IF current_song_url # NoUrl /\ url = current_song_url /\ i > 0
      THEN fix_loop(q, i + 1, current_song_url, new_queue, unique_urls)
    ELSE IF url \notin unique_urls
      THEN fix_loop(q, i + 1, current_song_url, Append(new_queue, url),
                    unique_urls \cup {url})
    ELSE fix_loop(q, i + 1, current_song_url, new_queue, unique_urls)

\* fix_queue(guild_id): the queue it leaves for queue q and current song cs.
fix_queue(q, cs) ==
  LET current_song_url == IF cs # None THEN cs.url ELSE NoUrl
  IN IF q = <<>> THEN q
     ELSE fix_loop(q, 0, current_song_url, <<>>, {})

\* ------------------------------------------------------------------ state
VARIABLES
  queue,              \* queues[str(guild_id)], a deque of requests
  current_song,       \* current_song[str(guild_id)]: a player or None
  preloaded_songs,    \* preloaded_songs[guild_id]: a player or None
  playing_locks,      \* playing_locks[guild_id]
  voice,              \* ctx.voice_client: "none", "idle", "playing", "paused"
  last_voice_channel, \* TRUE when last_voice_channel[guild_id] is stored
  has_message,        \* TRUE when current_song_message holds a message
  tasks               \* bag of coroutines scheduled or suspended on the loop

vars == <<queue, current_song, preloaded_songs, playing_locks, voice,
          last_voice_channel, has_message, tasks>>

\* A coroutine on the event loop: what it is, where it is suspended and its
\* local variables that are read after the suspension (req: search, next_url
\* or first_url; current_song_obj of preload_next_song; player: the source).
\* stale is a history flag, not program state: a stop or skip was carried out
\* while the coroutine was waiting for the resolver.
Task(kind, pc, req, current_song_obj, player) ==
  [kind |-> kind, pc |-> pc, req |-> req,
   current_song_obj |-> current_song_obj, player |-> player, stale |-> FALSE]

Spawn(ts, t) == ts (+) SetToBag({t})
Finish(ts, t) == ts (-) SetToBag({t})
TaskCount == BagCardinality(tasks)

\* Number of coroutines of the bag ts that are among the records of S.
RECURSIVE SumCopies(_, _)
SumCopies(S, ts) ==
  IF S = {} THEN 0
  ELSE LET t == CHOOSE x \in S : TRUE
       IN CopiesIn(t, ts) + SumCopies(S \ {t}, ts)

\* The bag ts once voice_client.stop() of the stop or skip command has run:
\* every coroutine that waits for the resolver in order to play is marked.
MarkStale(ts) ==
  LET mark(t) == IF t.pc = "resolve" /\ t.kind # "preload_next_song"
                   THEN [t EXCEPT !.stale = TRUE] ELSE t
      marked == {mark(t) : t \in BagToSet(ts)}
  IN [m \in marked |-> SumCopies({t \in BagToSet(ts) : mark(t) = m}, ts)]

\* The bag ts once handle_stop_request has cleared the queue, current_song and
\* the preload: besides the coroutines that wait for the resolver in order to
\* play, a preload_next_song that waits for the resolver is marked too.
MarkCleared(ts) ==
  LET mark(t) == IF t.pc = "resolve" THEN [t EXCEPT !.stale = TRUE] ELSE t
      marked == {mark(t) : t \in BagToSet(ts)}
  IN [m \in marked |-> SumCopies({t \in BagToSet(ts) : mark(t) = m}, ts)]

\* asyncio.create_task(play_next(ctx)) / run_coroutine_threadsafe(play_next)
PlayNextCall == Task("play_next", "start", NoUrl, None, None)
\* asyncio.create_task(preload_next_song(ctx))
PreloadCall == Task("preload_next_song", "start", NoUrl, None, None)

Init ==
  /\ queue = <<>>
  /\ current_song = None
  /\ preloaded_songs = None
  /\ playing_locks = FALSE
  /\ voice = "none"
  /\ last_voice_channel = FALSE
  /\ has_message = FALSE
  /\ tasks = EmptyBag

\* ------------------------------------------------------------ voice client
\* VoiceClient.is_playing(): a source is attached and not paused.
is_playing == voice = "playing"
\* VoiceClient.is_paused()
is_paused == voice = "paused"

\* ----------------------------------------------------- handle_play_request
\* handle_play_request without its is_playing() test: the request is resolved
\* whatever the voice client does.
handle_play_request_starts_anyway(search, join_ok) ==
  LET joined == voice = "none" /\ join_ok
      v1 == IF joined THEN "idle" ELSE voice
      q1 == fix_queue(queue, current_song)
  IN /\ voice' = v1
     /\ last_voice_channel' = (last_voice_channel \/ joined)
     /\ IF v1 = "none"
          THEN queue' = q1 /\ tasks' = tasks
          ELSE /\ TaskCount < MaxTasks
               /\ queue' = q1
               /\ tasks' = Spawn(tasks, Task("handle_play_request", "resolve",
                                             search, None, None))
     /\ UNCHANGED <<current_song, preloaded_songs, playing_locks,
                    has_message>>

\* handle_play_request(ctx, search) up to its first suspension on the
\* resolver.  join_ok: whether ctx.invoke(join) connects when the bot is not
\* in a voice channel.  With no voice client is_playing() raises and the
\* handler ends after fix_queue.
handle_play_request(search, join_ok) ==
  LET joined == voice = "none" /\ join_ok
      v1 == IF joined THEN "idle" ELSE voice
      q1 == fix_queue(queue, current_song)
  IN /\ voice' = v1
     /\ last_voice_channel' = (last_voice_channel \/ joined)
     /\ IF v1 = "none"
          THEN queue' = q1 /\ tasks' = tasks
        ELSE IF v1 = "playing"
          THEN /\ Len(q1) < MaxQueue
               /\ queue' = Append(q1, search)
               /\ tasks' = tasks
        ELSE /\ TaskCount < MaxTasks
             /\ queue' = q1
             /\ tasks' = Spawn(tasks, Task("handle_play_request", "resolve",
                                           search, None, None))
     /\ UNCHANGED <<current_song, preloaded_songs, playing_locks,
                    has_message>>

\* handle_play_request that queues the resolved request instead of playing it.
handle_play_request_resolved_appends(t, reconnect_ok) ==
  /\ t.kind = "handle_play_request" /\ t.pc = "resolve"
  /\ tasks' = Finish(tasks, t)
  /\ Len(queue) < MaxQueue
  /\ queue' = Append(queue, t.req)
  /\ UNCHANGED <<voice, current_song, has_message, preloaded_songs,
                 playing_locks, last_voice_channel>>

\* handle_play_request resumed with the source from_url returned: the
\* connection check, voice_client.play and current_song[...] = player.
\* reconnect_ok: outcome of the clean-reconnection loop when the voice client
\* is not connected.  play() on a client that is playing raises
\* ClientException, which the handler turns into an error string.
handle_play_request_resolved(t, reconnect_ok) ==
  LET player == from_url(t.req)
      voice_client_ready == voice # "none" \/ (last_voice_channel /\ reconnect_ok)
      v1 == IF voice = "none" THEN "idle" ELSE voice
  IN /\ t.kind = "handle_play_request" /\ t.pc = "resolve"
     /\ tasks' = Finish(tasks, t)
     /\ IF voice_client_ready /\ v1 # "playing"
          THEN /\ voice' = "playing"
               /\ current_song' = player
               /\ has_message' = TRUE
          ELSE UNCHANGED <<voice, current_song, has_message>>
     /\ UNCHANGED <<queue, preloaded_songs, playing_locks, last_voice_channel>>

\* handle_play_request resumed with YTDLError: "format" and
\* "copyright"/"removed" messages schedule play_next, any other only reports.
handle_play_request_failed(t, err) ==
  /\ t.kind = "handle_play_request" /\ t.pc = "resolve"
  /\ tasks' = IF err \in {"format", "removed"}
                THEN Spawn(Finish(tasks, t), PlayNextCall)
                ELSE Finish(tasks, t)
  /\ UNCHANGED <<queue, current_song, preloaded_songs, playing_locks, voice,
                 last_voice_channel, has_message>>

\* ------------------------------------------------------- control handlers
\* What handle_skip_request returns in the state it is called in: an error
\* string with no voice client or with a client that neither plays nor is
\* paused; otherwise one of its two "Skipped" confirmations.
handle_skip_result ==
  IF voice = "none" THEN "Error: I'm not connected to a voice channel."
  ELSE IF ~is_playing /\ ~is_paused THEN "Error: Nothing is playing right now."
  ELSE "Skipped"

\* handle_skip_request: fix_queue, then voice_client.stop(), whose completion
\* callback schedules play_next.
handle_skip_request ==
  /\ voice # "none"
  /\ is_playing \/ is_paused
  /\ TaskCount < MaxTasks
  /\ queue' = fix_queue(queue, current_song)
  /\ voice' = "idle"
  /\ tasks' = Spawn(MarkStale(tasks), PlayNextCall)
  /\ UNCHANGED <<current_song, preloaded_songs, playing_locks,
                 last_voice_channel, has_message>>

\* What handle_pause_request returns in the state it is called in: an error
\* string with no voice client, with nothing playing, or with a paused
\* client; otherwise the confirmation.
handle_pause_result ==
  IF voice = "none" THEN "Error: I'm not connected to a voice channel."
  ELSE IF ~is_playing THEN "Error: Nothing is playing right now."
  ELSE IF is_paused THEN "Error: Song is already paused."
  ELSE "Song paused."

\* A pause that stops the source instead of pausing it.
handle_pause_request_stops ==
  /\ voice # "none"
  /\ is_playing
  /\ ~is_paused
  /\ voice' = "idle"
  /\ UNCHANGED <<queue, current_song, preloaded_songs, playing_locks,
                 last_voice_channel, has_message, tasks>>

\* handle_pause_request past its three error returns: voice_client.pause().
handle_pause_request ==
  /\ voice # "none"
  /\ is_playing
  /\ ~is_paused
  /\ voice' = "paused"
  /\ UNCHANGED <<queue, current_song, preloaded_songs, playing_locks,
                 last_voice_channel, has_message, tasks>>

\* A resume that, with nothing paused and nothing playing, schedules play_next
\* twice.
handle_resume_request_schedules_twice ==
  /\ voice # "none"
  /\ ~is_playing
  /\ IF is_paused
       THEN voice' = "playing" /\ tasks' = tasks
       ELSE /\ TaskCount + 1 < MaxTasks
            /\ voice' = voice
            /\ tasks' = Spawn(Spawn(tasks, PlayNextCall), PlayNextCall)
  /\ UNCHANGED <<queue, current_song, preloaded_songs, playing_locks,
                 last_voice_channel, has_message>>

\* handle_resume_request: resumes a paused client; with nothing paused and
\* nothing playing it schedules play_next.
handle_resume_request ==
  /\ voice # "none"
  /\ ~is_playing
  /\ IF is_paused
       THEN voice' = "playing" /\ tasks' = tasks
       ELSE /\ TaskCount < MaxTasks
            /\ voice' = voice
            /\ tasks' = Spawn(tasks, PlayNextCall)
  /\ UNCHANGED <<queue, current_song, preloaded_songs, playing_locks,
                 last_voice_channel, has_message>>

\* handle_stop_request without its preloaded_songs[guild_id] = None.
handle_stop_outcome_keeps_preload ==
  IF voice = "none" \/ ~(is_playing \/ is_paused)
    THEN [queue |-> queue, current_song |-> current_song,
          preloaded_songs |-> preloaded_songs, voice |-> voice,
          result |-> "Error"]
    ELSE [queue |-> <<>>, current_song |-> None,
          preloaded_songs |-> preloaded_songs, voice |-> "idle",
          result |-> "Stopped"]

\* handle_stop_request without its two error returns: it clears and stops
\* whatever the voice client does.
handle_stop_outcome_unchecked ==
  [queue |-> <<>>, current_song |-> None, preloaded_songs |-> None,
   voice |-> IF voice = "none" THEN "none" ELSE "idle", result |-> "Stopped"]

\* handle_stop_request as a function of the state it is called in: the
\* queue, current song, preload and voice client it leaves and what it
\* returns.  With no voice client, or with nothing playing or paused, it
\* returns an error string before it touches anything.
handle_stop_outcome ==
  IF voice = "none" \/ ~(is_playing \/ is_paused)
    THEN [queue |-> queue, current_song |-> current_song,
          preloaded_songs |-> preloaded_songs, voice |-> voice,
          result |-> "Error"]
    ELSE [queue |-> <<>>, current_song |-> None, preloaded_songs |-> None,
          voice |-> "idle", result |-> "Stopped"]

\* handle_stop_request: clears the queue, current_song and the preload, then
\* voice_client.stop(), whose completion callback schedules play_next.
handle_stop_request ==
  LET o == handle_stop_outcome
  IN /\ queue' = o.queue
     /\ current_song' = o.current_song
     /\ preloaded_songs' = o.preloaded_songs
     /\ voice' = o.voice
     /\ IF o.result = "Stopped"
          THEN /\ TaskCount < MaxTasks
               /\ tasks' = Spawn(MarkCleared(tasks), PlayNextCall)
          ELSE tasks' = tasks
     /\ UNCHANGED <<playing_locks, last_voice_channel, has_message>>

\* The debug command: with a voice client that is neither playing nor paused
\* it schedules play_next.
debug ==
  /\ voice = "idle"
  /\ TaskCount < MaxTasks
  /\ tasks' = Spawn(tasks, PlayNextCall)
  /\ UNCHANGED <<queue, current_song, preloaded_songs, playing_locks, voice,
                 last_voice_channel, has_message>>

\* ------------------------------------------------- voice client callbacks
\* An `after` callback that runs the start of the transition itself instead of
\* scheduling play_next.
after_callback_inline(error) ==
  /\ is_playing
  /\ voice' = "idle"
  /\ IF error
       THEN UNCHANGED <<queue, current_song>>
       ELSE queue' = fix_queue(queue, current_song) /\ current_song' = None
  /\ UNCHANGED <<tasks, preloaded_songs, playing_locks, last_voice_channel,
                 has_message>>

\* The `after` callback of voice_client.play: the source ends; with no error
\* it schedules play_next on the loop, with an error it only logs.
after_callback(error) ==
  /\ is_playing
  /\ voice' = "idle"
  /\ IF error
       THEN tasks' = tasks
       ELSE TaskCount < MaxTasks /\ tasks' = Spawn(tasks, PlayNextCall)
  /\ UNCHANGED <<queue, current_song, preloaded_songs, playing_locks,
                 last_voice_channel, has_message>>

\* on_voice_state_update for the bot leaving its channel.  The handler looks
\* current_song and queues up under the integer guild id, under which the
\* program never stores them, so it neither clears current_song nor
\* schedules reconnect_and_resume.  callback: whether the dropped client ends
\* an attached source and so runs its `after` callback.
on_voice_state_update(callback) ==
  /\ voice # "none"
  /\ voice' = "none"
  /\ last_voice_channel' = TRUE
  /\ preloaded_songs' = None
  /\ playing_locks' = FALSE
  /\ IF callback /\ (is_playing \/ is_paused)
       THEN TaskCount < MaxTasks /\ tasks' = Spawn(tasks, PlayNextCall)
       ELSE tasks' = tasks
  /\ UNCHANGED <<queue, current_song, has_message>>

\* ---------------------------------------------------------------- play_next
\* play_next ending without its `finally`.
play_next_return_lock_kept(t, calls) ==
  /\ playing_locks' = playing_locks
  /\ tasks' = Finish(tasks, t) (+) calls

\* The `finally` of play_next together with the end of the coroutine: the
\* lock is released and the task leaves the loop, having scheduled `calls`.
play_next_return(t, calls) ==
  /\ playing_locks' = FALSE
  /\ tasks' = Finish(tasks, t) (+) calls

\* play_next sets the lock and runs to its first suspension, at pc.
play_next_acquire(t, pc, req, player) ==
  /\ playing_locks' = TRUE
  /\ tasks' = Spawn(Finish(tasks, t),
                    Task("play_next", pc, req, None, player))

\* play_next, already past the acquisition, suspends again at pc.
play_next_suspend(t, pc, req, player) ==
  /\ playing_locks' = playing_locks
  /\ tasks' = Spawn(Finish(tasks, t),
                    Task("play_next", pc, req, None, player))

\* play_next past its lock check without the comparison of the popped entry
\* with the URL of the song that ended.
play_next_honored_no_head_check(t) ==
  LET current_url == IF current_song # None THEN current_song.url ELSE NoUrl
      q1 == fix_queue(queue, current_song)
      player == preloaded_songs
  IN /\ current_song' = None
     /\ UNCHANGED <<voice, last_voice_channel, has_message>>
     /\ IF preloaded_songs # None
          THEN /\ preloaded_songs' = None
               /\ queue' = q1
               /\ IF current_url # NoUrl /\ player.url = current_url
                    THEN IF has_message
                           THEN play_next_acquire(t, "dup_end", NoUrl, None)
                           ELSE play_next_return(t, EmptyBag)
                    ELSE IF voice = "none"
                      THEN play_next_acquire(t, "pre_join", NoUrl, player)
                    ELSE play_next_acquire(t, "pre_sleep", NoUrl, player)
        ELSE IF q1 # <<>>
          THEN /\ preloaded_songs' = preloaded_songs
               /\ queue' = Tail(q1)
               /\ play_next_acquire(t, "resolve", Head(q1), None)
        ELSE /\ preloaded_songs' = preloaded_songs
             /\ queue' = q1
             /\ IF has_message
                  THEN play_next_acquire(t, "queue_end", NoUrl, None)
                  ELSE play_next_return(t, EmptyBag)

\* play_next(ctx) past its lock check, up to its first suspension: the
\* acquisition, fix_queue, clearing current_song, then the preloaded branch,
\* the queue branch or the empty branch.  queues[guild_id] (integer key) never
\* exists, so a preload equal to the current song ends the call.  With no
\* voice client the preloaded branch first invokes join.
play_next_honored(t) ==
  LET current_url == IF current_song # None THEN current_song.url ELSE NoUrl
      q1 == fix_queue(queue, current_song)
      player == preloaded_songs
  IN /\ current_song' = None
     /\ UNCHANGED <<voice, last_voice_channel, has_message>>
     /\ IF preloaded_songs # None
          THEN /\ preloaded_songs' = None
               /\ queue' = q1
               /\ IF current_url # NoUrl /\ player.url = current_url
                    THEN IF has_message
                           THEN play_next_acquire(t, "dup_end", NoUrl, None)
                           ELSE play_next_return(t, EmptyBag)
                    ELSE IF voice = "none"
                      THEN play_next_acquire(t, "pre_join", NoUrl, player)
                    ELSE play_next_acquire(t, "pre_sleep", NoUrl, player)
        ELSE IF q1 # <<>>
          THEN /\ preloaded_songs' = preloaded_songs
               /\ queue' = Tail(q1)
               /\ IF current_url # NoUrl /\ Head(q1) = current_url
                    THEN play_next_return(t, SetToBag({PlayNextCall}))
                    ELSE play_next_acquire(t, "resolve", Head(q1), None)
        ELSE /\ preloaded_songs' = preloaded_songs
             /\ queue' = q1
             /\ IF has_message
                  THEN play_next_acquire(t, "queue_end", NoUrl, None)
                  ELSE play_next_return(t, EmptyBag)

\* play_next without its lock check.
play_next_unchecked(t) ==
  /\ t = PlayNextCall
  /\ BagIn(t, tasks)
  /\ play_next_honored(t)

\* play_next(ctx) from its call: a call that finds the lock held logs and
\* returns; any other goes on as play_next_honored.
play_next(t) ==
  /\ t = PlayNextCall
  /\ BagIn(t, tasks)
  /\ IF playing_locks
       THEN /\ tasks' = Finish(tasks, t)
            /\ UNCHANGED <<queue, current_song, preloaded_songs, playing_locks,
                           voice, last_voice_channel, has_message>>
       ELSE play_next_honored(t)

\* play_next after ctx.invoke(join) in the preloaded branch.  join_ok: the
\* command's author is in a voice channel and the connection succeeds (or
\* exists by now), so that join stores the channel.
play_next_joined(t, join_ok) ==
  /\ t.kind = "play_next" /\ t.pc = "pre_join"
  /\ BagIn(t, tasks)
  /\ voice' = IF voice = "none" /\ join_ok THEN "idle" ELSE voice
  /\ last_voice_channel' = (last_voice_channel \/ join_ok)
  /\ play_next_suspend(t, "pre_sleep", NoUrl, t.player)
  /\ UNCHANGED <<queue, current_song, preloaded_songs, has_message>>

\* play_next after the edit of the "No More Songs" message.
play_next_queue_end(t) ==
  /\ t.kind = "play_next" /\ t.pc \in {"queue_end", "dup_end"}
  /\ BagIn(t, tasks)
  /\ current_song' = IF t.pc = "queue_end" THEN None ELSE current_song
  /\ play_next_return(t, EmptyBag)
  /\ UNCHANGED <<queue, preloaded_songs, voice, last_voice_channel, has_message>>

\* The `except Exception` handlers of play_next: current_song is cleared and
\* play_next is scheduled again; the preloaded branch then still schedules
\* preload_next_song.
play_next_except(t) ==
  /\ current_song' = None
  /\ play_next_return(t, IF t.pc \in {"pre_sleep", "pre_stopwait"}
                           THEN SetToBag({PlayNextCall}) (+) SetToBag({PreloadCall})
                           ELSE SetToBag({PlayNextCall}))

\* voice_client.play(player, after=...) and current_song[...] = player inside
\* play_next, up to the suspension in update_music_message.
play_next_play(t, player) ==
  /\ voice' = "playing"
  /\ current_song' = player
  /\ play_next_suspend(t, "after_play", NoUrl, player)

\* play_next after asyncio.sleep(0.5), in the preloaded and in the queue
\* branch: a client still playing is stopped (its callback schedules
\* play_next) and the coroutine sleeps again; otherwise the source is played.
\* With no voice client is_playing() raises.
play_next_after_sleep(t) ==
  /\ t.kind = "play_next" /\ t.pc \in {"pre_sleep", "q_sleep"}
  /\ BagIn(t, tasks)
  /\ IF voice = "none"
       THEN /\ play_next_except(t)
            /\ UNCHANGED voice
     ELSE IF is_playing
       THEN /\ voice' = "idle"
            /\ playing_locks' = playing_locks
            /\ tasks' = Spawn(Spawn(Finish(tasks, t), PlayNextCall),
                              Task("play_next",
                                   IF t.pc = "pre_sleep" THEN "pre_stopwait" ELSE "q_stopwait",
                                   NoUrl, None, t.player))
            /\ current_song' = current_song
     ELSE play_next_play(t, t.player)
  /\ BagCardinality(tasks') <= MaxTasks
  /\ UNCHANGED <<queue, preloaded_songs, last_voice_channel, has_message>>

\* play_next after asyncio.sleep(0.2): the queue branch verifies the
\* connection and calls ensure_voice_connection when it is gone; play() on a
\* missing or playing client raises.
play_next_after_stop(t) ==
  /\ t.kind = "play_next" /\ t.pc \in {"pre_stopwait", "q_stopwait"}
  /\ BagIn(t, tasks)
  /\ IF voice = "none" /\ t.pc = "q_stopwait"
       THEN /\ IF last_voice_channel
                 THEN play_next_suspend(t, "connect2", NoUrl, t.player)
                 ELSE play_next_return(t, SetToBag({PlayNextCall}))
            /\ UNCHANGED <<voice, current_song>>
     ELSE IF voice = "none" \/ is_playing
       THEN /\ play_next_except(t)
            /\ UNCHANGED voice
     ELSE play_next_play(t, t.player)
  /\ BagCardinality(tasks') <= MaxTasks
  /\ UNCHANGED <<queue, preloaded_songs, last_voice_channel, has_message>>

\* play_next resumed with the source from_url returned for next_url, then
\* ensure_voice_connection: True at once on a connected client, False at once
\* with no stored channel, otherwise it suspends in its connect attempts.
play_next_resolved(t) ==
  /\ t.kind = "play_next" /\ t.pc = "resolve"
  /\ BagIn(t, tasks)
  /\ IF voice # "none"
       THEN play_next_suspend(t, "q_sleep", NoUrl, from_url(t.req))
     ELSE IF last_voice_channel
       THEN play_next_suspend(t, "connect1", NoUrl, from_url(t.req))
     ELSE play_next_return(t, SetToBag({PlayNextCall}))
  /\ UNCHANGED <<queue, current_song, preloaded_songs, voice, last_voice_channel, has_message>>

\* play_next whose YTDLError handler gives up: nothing is scheduled.
play_next_failed_gives_up(t, err) ==
  /\ t.kind = "play_next" /\ t.pc = "resolve"
  /\ BagIn(t, tasks)
  /\ current_song' = None
  /\ play_next_return(t, EmptyBag)
  /\ UNCHANGED <<queue, preloaded_songs, voice, last_voice_channel, has_message>>

\* play_next whose YTDLError handler puts the failed entry back at the head.
play_next_failed_requeues(t, err) ==
  /\ t.kind = "play_next" /\ t.pc = "resolve"
  /\ BagIn(t, tasks)
  /\ current_song' = None
  /\ queue' = <<t.req>> \o queue
  /\ play_next_return(t, SetToBag({PlayNextCall}))
  /\ UNCHANGED <<preloaded_songs, voice, last_voice_channel, has_message>>

\* play_next resumed with YTDLError: current_song is cleared; with songs left
\* in the queue a "format" or "copyright"/"removed" message schedules
\* play_next, and the handler always schedules play_next at its end.
play_next_failed(t, err) ==
  /\ t.kind = "play_next" /\ t.pc = "resolve"
  /\ BagIn(t, tasks)
  /\ current_song' = None
  /\ play_next_return(t, IF queue # <<>> /\ err \in {"format", "removed"}
                           THEN SetToBag({PlayNextCall}) (+) SetToBag({PlayNextCall})
                           ELSE SetToBag({PlayNextCall}))
  /\ BagCardinality(tasks') <= MaxTasks
  /\ UNCHANGED <<queue, preloaded_songs, voice, last_voice_channel, has_message>>

\* ensure_voice_connection(ctx) returning inside play_next.  ok: whether one
\* of its attempts connected (an existing connection counts).  After the
\* first call the coroutine sleeps 0.5 s; after the second it plays.
play_next_connected(t, ok) ==
  /\ t.kind = "play_next" /\ t.pc \in {"connect1", "connect2"}
  /\ BagIn(t, tasks)
  /\ LET v1 == IF voice = "none" THEN "idle" ELSE voice
     IN IF ~(ok \/ voice # "none")
          THEN /\ play_next_return(t, SetToBag({PlayNextCall}))
               /\ UNCHANGED <<voice, current_song>>
        ELSE IF t.pc = "connect1"
          THEN /\ voice' = v1
               /\ play_next_suspend(t, "q_sleep", NoUrl, t.player)
               /\ UNCHANGED current_song
        ELSE IF v1 = "playing"
          THEN /\ play_next_except(t)
               /\ UNCHANGED voice
        ELSE play_next_play(t, t.player)
  /\ UNCHANGED <<queue, preloaded_songs, last_voice_channel, has_message>>

\* play_next after update_music_message: preload_next_song is scheduled and
\* the call returns.
play_next_done(t) ==
  /\ t.kind = "play_next" /\ t.pc = "after_play"
  /\ BagIn(t, tasks)
  /\ has_message' = TRUE
  /\ play_next_return(t, SetToBag({PreloadCall}))
  /\ UNCHANGED <<queue, current_song, preloaded_songs, voice, last_voice_channel>>

\* -------------------------------------------------------- preload_next_song
\* preload_next_song(ctx) up to the resolver: nothing to do with a preload
\* present or an empty queue; a head equal to the current song's URL is
\* popped and the next entry, if any, is preloaded.
preload_next_song(t) ==
  /\ t = PreloadCall
  /\ BagIn(t, tasks)
  /\ IF preloaded_songs # None \/ queue = <<>>
       THEN queue' = queue /\ tasks' = Finish(tasks, t)
     ELSE IF current_song # None /\ current_song.url = Head(queue)
       THEN /\ queue' = Tail(queue)
            /\ tasks' = IF Tail(queue) # <<>>
                          THEN Spawn(Finish(tasks, t),
                                     Task("preload_next_song", "resolve",
                                          Head(Tail(queue)), current_song, None))
                          ELSE Finish(tasks, t)
     ELSE /\ queue' = queue
          /\ tasks' = Spawn(Finish(tasks, t),
                            Task("preload_next_song", "resolve", Head(queue),
                                 current_song, None))
  /\ UNCHANGED <<current_song, preloaded_songs, playing_locks, voice,
                 last_voice_channel, has_message>>

\* preload_next_song resumed by the resolver.  ok: from_url returned a
\* source; it is stored unless its title is that of the song that was
\* current when the preload began.  A YTDLError is only logged.
preload_next_song_resolved(t, ok) ==
  /\ t.kind = "preload_next_song" /\ t.pc = "resolve"
  /\ BagIn(t, tasks)
  /\ tasks' = Finish(tasks, t)
  /\ LET player == from_url(t.req)
     IN IF ok /\ ~(t.current_song_obj # None /\ t.current_song_obj.title = player.title)
          THEN preloaded_songs' = player
          ELSE preloaded_songs' = preloaded_songs
  /\ UNCHANGED <<queue, current_song, playing_locks, voice, last_voice_channel, has_message>>

\* ----------------------------------------------------------- handle_playlist
\* The loop of handle_playlist that appends each entry URL not yet seen in
\* this playlist.
RECURSIVE playlist_append(_, _, _)
playlist_append(q, entries, unique_urls) ==
  IF entries = <<>> THEN q
  ELSE IF Head(entries) \notin unique_urls
    THEN playlist_append(Append(q, Head(entries)), Tail(entries),
                         unique_urls \cup {Head(entries)})
  ELSE playlist_append(q, Tail(entries), unique_urls)

\* handle_playlist without its is_playing() test: the first entry is popped
\* and resolved whatever the voice client does.
handle_playlist_starts_anyway(entries, join_ok) ==
  LET joined == voice = "none" /\ join_ok
      v1 == IF joined THEN "idle" ELSE voice
      q1 == fix_queue(playlist_append(queue, entries, {}), current_song)
  IN /\ Len(queue) + Len(entries) <= MaxQueue
     /\ voice' = v1
     /\ last_voice_channel' = (last_voice_channel \/ joined)
     /\ IF q1 # <<>>
          THEN /\ TaskCount < MaxTasks
               /\ queue' = Tail(q1)
               /\ tasks' = Spawn(tasks, Task("handle_playlist", "resolve",
                                             Head(q1), None, None))
          ELSE queue' = q1 /\ tasks' = tasks
     /\ UNCHANGED <<current_song, preloaded_songs, playing_locks,
                    has_message>>

\* handle_playlist(ctx, url) up to the resolver: the entries are appended,
\* fix_queue runs, and with a client that is not playing the first entry is
\* popped and resolved.
handle_playlist(entries, join_ok) ==
  LET joined == voice = "none" /\ join_ok
      v1 == IF joined THEN "idle" ELSE voice
      q1 == fix_queue(playlist_append(queue, entries, {}), current_song)
  IN /\ Len(queue) + Len(entries) <= MaxQueue
     /\ voice' = v1
     /\ last_voice_channel' = (last_voice_channel \/ joined)
     /\ IF v1 # "playing" /\ q1 # <<>>
          THEN /\ TaskCount < MaxTasks
               /\ queue' = Tail(q1)
               /\ tasks' = Spawn(tasks, Task("handle_playlist", "resolve",
                                             Head(q1), None, None))
          ELSE queue' = q1 /\ tasks' = tasks
     /\ UNCHANGED <<current_song, preloaded_songs, playing_locks,
                    has_message>>

\* handle_playlist resumed by the resolver: the first song is played and set
\* as current_song; a resolver error, or play() raising on a missing or
\* playing client, schedules play_next.
handle_playlist_resolved(t, ok) ==
  /\ t.kind = "handle_playlist" /\ t.pc = "resolve"
  /\ BagIn(t, tasks)
  /\ IF ok /\ voice \in {"idle", "paused"}
       THEN /\ voice' = "playing"
            /\ current_song' = from_url(t.req)
            /\ has_message' = TRUE
            /\ tasks' = Finish(tasks, t)
       ELSE /\ tasks' = Spawn(Finish(tasks, t), PlayNextCall)
            /\ UNCHANGED <<voice, current_song, has_message>>
  /\ UNCHANGED <<queue, preloaded_songs, playing_locks, last_voice_channel>>

\* -------------------------------------------------------------------- Next
Pending == BagToSet(tasks)

\* The outcomes a connection attempt can have: it is attempted only when the
\* bot is in no voice channel, so only then can it fail.
JoinOutcomes == IF voice = "none" THEN BOOLEAN ELSE {TRUE}

\* Whether a dropped client runs an `after` callback: only an attached source
\* has one.
CallbackOutcomes == IF is_playing \/ is_paused THEN BOOLEAN ELSE {FALSE}

Next ==
  \/ \E search \in PlayInputs, join_ok \in JoinOutcomes : handle_play_request(search, join_ok)
  \/ \E t \in Pending, reconnect_ok \in JoinOutcomes : handle_play_request_resolved(t, reconnect_ok)
  \/ \E t \in Pending, err \in ErrKinds : handle_play_request_failed(t, err)
  \/ \E entries \in Playlists, join_ok \in JoinOutcomes : handle_playlist(entries, join_ok)
  \/ \E t \in Pending, ok \in BOOLEAN : handle_playlist_resolved(t, ok)
  \/ handle_skip_request
  \/ handle_pause_request
  \/ debug
  \/ handle_resume_request
  \/ handle_stop_request
  \/ \E error \in BOOLEAN : after_callback(error)
  \/ \E callback \in CallbackOutcomes : on_voice_state_update(callback)
  \/ \E t \in Pending : play_next(t)
  \/ \E t \in Pending, join_ok \in BOOLEAN : play_next_joined(t, join_ok)
  \/ \E t \in Pending : play_next_queue_end(t)
  \/ \E t \in Pending : play_next_after_sleep(t)
  \/ \E t \in Pending : play_next_after_stop(t)
  \/ \E t \in Pending : play_next_resolved(t)
  \/ \E t \in Pending, err \in ErrKinds : play_next_failed(t, err)
  \/ \E t \in Pending, ok \in JoinOutcomes : play_next_connected(t, ok)
  \/ \E t \in Pending : play_next_done(t)
  \/ \E t \in Pending : preload_next_song(t)
  \/ \E t \in Pending, ok \in BOOLEAN : preload_next_song_resolved(t, ok)

Spec == Init /\ [][Next]_vars

TypeOK ==
  /\ queue \in Seq(Requests) /\ Len(queue) <= MaxQueue
  /\ current_song \in Players \cup {None}
  /\ preloaded_songs \in Players \cup {None}
  /\ playing_locks \in BOOLEAN
  /\ voice \in {"none", "idle", "playing", "paused"}
  /\ TaskCount <= MaxTasks

\* Fairness of the event loop: a suspended play_next coroutine is eventually
\* resumed (the resolver, the sleeps and the Discord calls return).  Whether
\* the resolver fails is not a matter of scheduling, so play_next_failed is
\* left out.
play_next_resume ==
  \E t \in Pending :
    \/ (\E join_ok \in BOOLEAN : play_next_joined(t, join_ok))
    \/ play_next_queue_end(t)
    \/ play_next_after_sleep(t)
    \/ play_next_after_stop(t)
    \/ play_next_resolved(t)
    \/ \E ok \in BOOLEAN : play_next_connected(t, ok)
    \/ play_next_done(t)

FairSpec == Spec /\ WF_vars(play_next_resume)

\* ------------------------------------------- fix_queue on arbitrary inputs
RECURSIVE SeqsUpTo(_, _)
SeqsUpTo(S, n) ==
  IF n = 0 THEN {<<>>}
  ELSE LET shorter == SeqsUpTo(S, n - 1)
       IN shorter \cup {Append(q, x) : q \in shorter, x \in S}

FixInit ==
  /\ queue \in SeqsUpTo(Requests, MaxFixLen)
  /\ current_song \in Players \cup {None}
  /\ preloaded_songs = None
  /\ playing_locks = FALSE
  /\ voice = "idle"
  /\ last_voice_channel = TRUE
  /\ has_message = FALSE
  /\ tasks = EmptyBag

\* await fix_queue(guild_id) on its own.
fix_queue_call ==
  /\ queue' = fix_queue(queue, current_song)
  /\ UNCHANGED <<current_song, preloaded_songs, playing_locks, voice,
                 last_voice_channel, has_message, tasks>>

FixSpec == FixInit /\ [][fix_queue_call]_vars

\* ------------------------------------- play_next when every resolution fails
\* A guild at the start of a transition: play_next has been scheduled, alone
\* or next to a preload_next_song, for any queue and any song that ended.
RetryInit ==
  /\ queue \in SeqsUpTo(PlayInputs, MaxQueue)
  /\ current_song \in Players \cup {None}
  /\ preloaded_songs = None
  /\ playing_locks = FALSE
  /\ voice \in {"none", "idle"}
  /\ last_voice_channel \in BOOLEAN
  /\ has_message \in BOOLEAN
  /\ tasks \in {SetToBag({PlayNextCall}), SetToBag({PlayNextCall, PreloadCall})}

\* The steps of the chain: every YTDLSource.from_url raises YTDLError, and no
\* command arrives.
RetryNext ==
  \/ \E t \in Pending : play_next(t)
  \/ \E t \in Pending, err \in ErrKinds : play_next_failed(t, err)
  \/ \E t \in Pending : play_next_queue_end(t)
  \/ \E t \in Pending : preload_next_song(t)
  \/ \E t \in Pending : preload_next_song_resolved(t, FALSE)

\* The event loop runs every scheduled coroutine and the resolver returns.
RetrySpec == RetryInit /\ [][RetryNext]_vars /\ WF_vars(RetryNext)

\* ------------------------------------------------- ensure_voice_connection
\* max_retries of ensure_voice_connection and its connection_retries.
max_retries == 3
connection_retries == 3

\* What one `await channel.connect(...)` can do: return a connected client,
\* or raise IndexError("list index out of range"), ConnectionClosed with code
\* 4006, 1000 or another code, ClientException, or anything else (the
\* TimeoutError of wait_for among them).
ConnectOutcomes ==
  {"connected", "IndexError", "Closed4006", "Closed1000", "ClosedOther",
   "ClientException", "TimeoutError"}

\* An ensure_voice_connection coroutine: attempt and conn_attempt are its loop
\* variables, result what it returned.  connects and wait are history: the
\* channel.connect calls it has made, and the seconds it slept between the
\* last one that failed and the one it is making.
ConnTask(pc, attempt, conn_attempt, connects, wait, result) ==
  [kind |-> "ensure_voice_connection", pc |-> pc, attempt |-> attempt,
   conn_attempt |-> conn_attempt, connects |-> connects, wait |-> wait,
   result |-> result]

\* ensure_voice_connection(ctx) as called.
EnsureCall == ConnTask("start", 0, 0, 0, 0, "none")
\* asyncio.create_task(delayed_reconnect_attempt(guild_id))
DelayedCall == [kind |-> "delayed_reconnect_attempt", pc |-> "start"]

\* handle_voice_connection_error(guild_id, error, context): the seconds it
\* sleeps and the coroutines it schedules.  Only code 4006 sleeps, and it
\* schedules delayed_reconnect_attempt when the queue is non-empty.
handle_voice_connection_error(outcome) ==
  IF outcome = "Closed4006"
    THEN [slept |-> 5,
          calls |-> IF queue # <<>> THEN SetToBag({DelayedCall}) ELSE EmptyBag]
    ELSE [slept |-> 0, calls |-> EmptyBag]

\* ensure_voice_connection up to its first channel.connect: True at once with
\* a connected client, False at once with no stored channel.
ensure_voice_connection(t) ==
  /\ t = EnsureCall
  /\ BagIn(t, tasks)
  /\ tasks' = Spawn(Finish(tasks, t),
                    IF voice # "none"
                      THEN ConnTask("returned", 0, 0, 0, 0, "True")
                    ELSE IF ~last_voice_channel
                      THEN ConnTask("returned", 0, 0, 0, 0, "False")
                    ELSE ConnTask("connect", 0, 0, 1, 0, "none"))
  /\ UNCHANGED <<queue, current_song, preloaded_songs, playing_locks, voice,
                 last_voice_channel, has_message>>

\* ensure_voice_connection resumed by channel.connect.  A client that exists
\* by now makes connect raise "Already connected", which the code takes as
\* success.  IndexError, ConnectionClosed and ClientException are retried up
\* to connection_retries times inside the attempt, after 2 s (3 s for code
\* 4006); a ConnectionClosed first goes through
\* handle_voice_connection_error, and once more when it ends the attempt.  A
\* failed attempt sleeps 2 ** attempt and starts the next; the last one
\* returns False.
ensure_voice_connection_connect(t, outcome) ==
  LET closed == outcome \in {"Closed4006", "Closed1000", "ClosedOther"}
      retried == outcome # "TimeoutError"
                   /\ t.conn_attempt < connection_retries - 1
      h == handle_voice_connection_error(outcome)
      inner_sleep == IF outcome = "Closed4006" THEN 3 ELSE 2
  IN /\ t.kind = "ensure_voice_connection" /\ t.pc = "connect"
     /\ BagIn(t, tasks)
     /\ voice' = IF voice = "none" /\ outcome = "connected" THEN "idle" ELSE voice
     /\ tasks' =
          IF voice # "none" \/ outcome = "connected"
            THEN Spawn(Finish(tasks, t),
                       [t EXCEPT !.pc = "returned", !.result = "True"])
          ELSE IF retried
            THEN Spawn(Finish(tasks, t),
                       ConnTask("connect", t.attempt, t.conn_attempt + 1,
                                t.connects + 1,
                                (IF closed THEN h.slept ELSE 0) + inner_sleep,
                                "none"))
                 (+) (IF closed THEN h.calls ELSE EmptyBag)
          ELSE IF t.attempt < max_retries - 1
            THEN Spawn(Finish(tasks, t),
                       ConnTask("connect", t.attempt + 1, 0, t.connects + 1,
                                (IF closed THEN 2 * h.slept ELSE 0) + 2 ^ t.attempt,
                                "none"))
                 (+) (IF closed THEN h.calls (+) h.calls ELSE EmptyBag)
          ELSE Spawn(Finish(tasks, t),
                     [t EXCEPT !.pc = "returned", !.result = "False"])
               (+) (IF closed THEN h.calls (+) h.calls ELSE EmptyBag)
     /\ UNCHANGED <<queue, current_song, preloaded_songs, playing_locks,
                    last_voice_channel, has_message>>

\* delayed_reconnect_attempt(guild_id) after its 10 s sleep, in its
\* channel.connect().
delayed_reconnect_attempt(t) ==
  /\ t = DelayedCall
  /\ BagIn(t, tasks)
  /\ tasks' = IF last_voice_channel
                THEN Spawn(Finish(tasks, t), [t EXCEPT !.pc = "connect"])
                ELSE Finish(tasks, t)
  /\ UNCHANGED <<queue, current_song, preloaded_songs, playing_locks, voice,
                 last_voice_channel, has_message>>

\* delayed_reconnect_attempt resumed by channel.connect(): once connected,
\* with a queue, play_next_from_queue pops the head and hands it to
\* handle_play_request; any exception is logged.
delayed_reconnect_attempt_connect(t, ok) ==
  /\ t.kind = "delayed_reconnect_attempt" /\ t.pc = "connect"
  /\ BagIn(t, tasks)
  /\ IF voice = "none" /\ ok
       THEN /\ voice' = "idle"
            /\ IF queue # <<>>
                 THEN /\ queue' = Tail(queue)
                      /\ tasks' = Spawn(Finish(tasks, t),
                                        Task("play_next_from_queue", "get_context",
                                             Head(queue), None, None))
                 ELSE queue' = queue /\ tasks' = Finish(tasks, t)
       ELSE /\ tasks' = Finish(tasks, t)
            /\ UNCHANGED <<voice, queue>>
  /\ UNCHANGED <<current_song, preloaded_songs, playing_locks,
                 last_voice_channel, has_message>>

\* A guild that lost its voice client, as ensure_voice_connection is called:
\* any queue, with or without a stored channel.
ConnInit ==
  /\ queue \in SeqsUpTo(PlayInputs, MaxQueue)
  /\ current_song = None
  /\ preloaded_songs = None
  /\ playing_locks = FALSE
  /\ voice \in {"none", "idle"}
  /\ last_voice_channel \in BOOLEAN
  /\ has_message = FALSE
  /\ tasks = SetToBag({EnsureCall})

ConnNext ==
  \/ \E t \in Pending : ensure_voice_connection(t)
  \/ \E t \in Pending, outcome \in ConnectOutcomes : ensure_voice_connection_connect(t, outcome)
  \/ \E t \in Pending : delayed_reconnect_attempt(t)
  \/ \E t \in Pending, ok \in BOOLEAN : delayed_reconnect_attempt_connect(t, ok)

ConnSpec == ConnInit /\ [][ConnNext]_vars

\* ------------------------------------------ resuming after a disconnect
\* A guild that plays A with B queued: A was started by handle_playlist or by
\* play_next, which may still be suspended in update_music_message or have
\* scheduled preload_next_song, and B may be preloaded already.
ResumeInit ==
  /\ queue = <<"B">>
  /\ current_song = from_url("A")
  /\ voice = "playing"
  /\ last_voice_channel = TRUE
  /\ has_message = TRUE
  /\ \/ /\ tasks \in {EmptyBag, SetToBag({PreloadCall})}
        /\ preloaded_songs \in {None, from_url("B")}
        /\ playing_locks = FALSE
     \/ /\ tasks = SetToBag({Task("play_next", "after_play", NoUrl, None,
                                  from_url("A"))})
        /\ preloaded_songs = None
        /\ playing_locks = TRUE

\* The bot is disconnected while A plays; afterwards the event loop runs the
\* coroutines there are, every resolution succeeds, every connection attempt
\* connects and a track that was started may end.  No command arrives and the
\* voice client is never found playing by a transition, so the branch of
\* play_next that stops it first is not taken.
ResumeNext ==
  \/ \E callback \in BOOLEAN :
       (is_playing /\ current_song = from_url("A")) /\ on_voice_state_update(callback)
  \/ \E error \in BOOLEAN : after_callback(error)
  \/ \E t \in Pending : play_next(t)
  \/ \E t \in Pending : play_next_joined(t, TRUE)
  \/ \E t \in Pending : play_next_queue_end(t)
  \/ \E t \in Pending : play_next_after_sleep(t)
  \/ \E t \in Pending : play_next_resolved(t)
  \/ \E t \in Pending : play_next_connected(t, TRUE)
  \/ \E t \in Pending : play_next_done(t)
  \/ \E t \in Pending : preload_next_song(t)
  \/ \E t \in Pending : preload_next_song_resolved(t, TRUE)

\* The coroutines on the loop are run; whether the bot is disconnected and
\* whether a track ends are not matters of scheduling.
ResumeRun ==
  \E t \in Pending :
    \/ play_next(t)
    \/ play_next_joined(t, TRUE)
    \/ play_next_queue_end(t)
    \/ play_next_after_sleep(t)
    \/ play_next_resolved(t)
    \/ play_next_connected(t, TRUE)
    \/ play_next_done(t)
    \/ preload_next_song(t)
    \/ preload_next_song_resolved(t, TRUE)

ResumeSpec == ResumeInit /\ [][ResumeNext]_vars /\ WF_vars(ResumeRun)

\* ------------------------------------------------------- play_from_index
\* The HTTP request POST /api/guild/<guild_id>/queue/<index>/play.  It runs
\* outside the event loop; it is taken here as one step.
\* The indexes a request is made with: two that no queue of the model has,
\* and every index a queue can have.
IndexInputs == (0 - 1)..MaxQueue

\* What play_from_index answers in the state it is called in.
play_from_index_result(index) ==
  IF index < 0 \/ index >= Len(queue) THEN "Invalid queue index"
  ELSE IF voice = "none" THEN "Bot not connected to a voice channel"
  ELSE "Playing selected song"

\* A request that was answered "Playing selected song".  selected_url is the
\* local variable of the request, following the entries after it
\* (queue_list[index+1:]); the record stays in the bag for the rest of the
\* run and no code reads it: it is history.
IndexRequest(selected_url, following) ==
  [kind |-> "play_from_index", pc |-> "answered",
   selected_url |-> selected_url, following |-> following]

\* The requests answered so far.
IndexRequests == {r \in BagToSet(tasks) : r.kind = "play_from_index"}

\* play_from_index(guild_id, index): an invalid index or a missing voice
\* client is answered with an error; otherwise the queue becomes the selected
\* entry followed by the entries after it and voice_client.stop() is called,
\* whose completion callback (a source is attached) schedules play_next.
play_from_index(index) ==
  /\ IndexRequests = {}
  /\ IF play_from_index_result(index) # "Playing selected song"
       THEN UNCHANGED <<queue, voice, tasks>>
       ELSE LET request == IndexRequest(queue[index + 1],
                                        SubSeq(queue, index + 2, Len(queue)))
            IN /\ queue' = SubSeq(queue, index + 1, Len(queue))
               /\ IF is_playing \/ is_paused
                    THEN /\ voice' = "idle"
                         /\ tasks' = Spawn(Spawn(MarkStale(tasks), PlayNextCall),
                                           request)
                    ELSE /\ voice' = voice
                         /\ tasks' = Spawn(tasks, request)
  /\ UNCHANGED <<current_song, preloaded_songs, playing_locks,
                 last_voice_channel, has_message>>

\* A guild with a track playing or paused, a queue and possibly a preloaded
\* song, and nothing in flight.
IndexInit ==
  /\ queue \in SeqsUpTo(PlayInputs, MaxQueue) \ {<<>>}
  /\ current_song \in {from_url(r) : r \in PlayInputs}
  /\ preloaded_songs \in {None} \cup {from_url(r) : r \in PlayInputs}
  /\ playing_locks = FALSE
  /\ voice \in {"playing", "paused"}
  /\ last_voice_channel = TRUE
  /\ has_message = TRUE
  /\ tasks = EmptyBag

\* The transition a request asked for has started a track.
IndexStarted == IndexRequests # {} /\ is_playing

\* The run of the scenario: the request, the natural end of the track, and
\* the steps of play_next and preload_next_song with a resolver that
\* succeeds.  The scenario ends when the track after the request has started.
IndexNext ==
  \/ \E index \in IndexInputs : play_from_index(index)
  \/ ~IndexStarted /\ after_callback(FALSE)
  \/ \E t \in Pending : ~IndexStarted /\ play_next(t)
  \/ \E t \in Pending : ~IndexStarted /\ play_next_queue_end(t)
  \/ \E t \in Pending : ~IndexStarted /\ play_next_after_sleep(t)
  \/ \E t \in Pending : ~IndexStarted /\ play_next_resolved(t)
  \/ \E t \in Pending : ~IndexStarted /\ play_next_done(t)
  \/ \E t \in Pending : ~IndexStarted /\ preload_next_song(t)
  \/ \E t \in Pending : ~IndexStarted /\ preload_next_song_resolved(t, TRUE)

IndexSpec == IndexInit /\ [][IndexNext]_vars

\* ------------------------------------------------- one entry, URL or search
\* A session in which track B plays and one request has been accepted into
\* the queue, a URL or a search text; nothing else is enqueued afterwards.
\* preload_next_song may have cached the entry already, or be about to run.
OnceInit ==
  /\ queue \in {<<r>> : r \in {"A"} \cup Searches}
  /\ current_song = from_url("B")
  /\ preloaded_songs \in {None, from_url(Head(queue))}
  /\ playing_locks = FALSE
  /\ voice = "playing"
  /\ last_voice_channel = TRUE
  /\ has_message = TRUE
  /\ tasks \in {EmptyBag, SetToBag({PreloadCall})}

\* The run: tracks end or are skipped, and play_next and preload_next_song
\* take their steps on a connected client with a resolver that succeeds for
\* play_next and succeeds or fails for the preload.
OnceNext ==
  \/ after_callback(FALSE)
  \/ handle_skip_request
  \/ \E t \in Pending : play_next(t)
  \/ \E t \in Pending : play_next_queue_end(t)
  \/ \E t \in Pending : play_next_after_sleep(t)
  \/ \E t \in Pending : play_next_resolved(t)
  \/ \E t \in Pending : play_next_done(t)
  \/ \E t \in Pending : preload_next_song(t)
  \/ \E t \in Pending, ok \in BOOLEAN : preload_next_song_resolved(t, ok)

\* The coroutines on the loop: the event loop runs every scheduled coroutine
\* and the resolver returns.
OnceRun ==
  \E t \in Pending :
    \/ play_next(t)
    \/ play_next_queue_end(t)
    \/ play_next_after_sleep(t)
    \/ play_next_resolved(t)
    \/ play_next_done(t)
    \/ preload_next_song(t)
    \/ \E ok \in BOOLEAN : preload_next_song_resolved(t, ok)

OnceSpec == OnceInit /\ [][OnceNext]_vars /\ WF_vars(OnceRun)

\* ------------------------------------------------- sessions of two guilds
\* In GuildSpec every variable holds the whole dictionary of the program
\* instead of one guild's entry: queue is `queues` and current_song is
\* `current_song`, both keyed by str(guild_id); preloaded_songs, playing_locks,
\* last_voice_channel and has_message (current_song_message) are keyed by the
\* integer guild id; voice maps a guild to the state of guild.voice_client;
\* tasks holds the coroutines of all guilds, each with the guild of its ctx.
\* Every operation below takes the guild of its ctx (ctx.guild.id) and reads
\* and writes the keys the code computes from it.
MaxGuildQueue == 1
MaxGuildTasks == 2

\* ctx.guild.id of the guilds the bot is in.
Guilds == {1, 2}

\* Python str(guild_id).
str(guild_id) ==
  IF guild_id = 1 THEN "1" ELSE "2"

\* The requests made in a guild: the second guild only ever asks for "B".
GuildInputs(guild_id) ==
  IF guild_id = 1 THEN {"A", "B"} ELSE {"B"}

\* dict[key] = value
Put(dict, key, value) == [dict EXCEPT ![key] = value]

\* A coroutine on the loop together with the guild of its ctx.
GuildTask(guild_id, kind, pc, req, current_song_obj, player) ==
  [ctx |-> guild_id, kind |-> kind, pc |-> pc, req |-> req,
   current_song_obj |-> current_song_obj, player |-> player]

\* create_task(play_next(ctx)) and create_task(preload_next_song(ctx))
GuildPlayNextCall(guild_id) ==
  GuildTask(guild_id, "play_next", "start", NoUrl, None, None)
GuildPreloadCall(guild_id) ==
  GuildTask(guild_id, "preload_next_song", "start", NoUrl, None, None)

\* Number of coroutines on the loop whose ctx is of the guild.
GuildTaskCountIn(ts, guild_id) ==
  BagCardinality([t \in {u \in BagToSet(ts) : u.ctx = guild_id}
                    |-> CopiesIn(t, ts)])
GuildTaskCount(guild_id) == GuildTaskCountIn(tasks, guild_id)

\* The coroutines a guild may have on the loop at once: the second guild is
\* kept to one so that the product of the two sessions stays small.
GuildTaskBound(guild_id) ==
  IF guild_id = 1 THEN MaxGuildTasks ELSE 1

GuildInit ==
  /\ queue = [k \in {str(g) : g \in Guilds} |-> <<>>]
  /\ current_song = [k \in {str(g) : g \in Guilds} |-> None]
  /\ preloaded_songs = [g \in Guilds |-> None]
  /\ playing_locks = [g \in Guilds |-> FALSE]
  /\ voice = [g \in Guilds |-> "none"]
  /\ last_voice_channel = [g \in Guilds |-> FALSE]
  /\ has_message = [g \in Guilds |-> FALSE]
  /\ tasks = EmptyBag

\* handle_play_request(ctx, search) up to the resolver, on the dictionaries.
guild_handle_play_request(guild_id, search, join_ok) ==
  LET guild_id_str == str(guild_id)
      joined == voice[guild_id] = "none" /\ join_ok
      v1 == IF joined THEN "idle" ELSE voice[guild_id]
      q1 == fix_queue(queue[guild_id_str], current_song[guild_id_str])
  IN /\ voice' = Put(voice, guild_id, v1)
     /\ last_voice_channel' =
          Put(last_voice_channel, guild_id, last_voice_channel[guild_id] \/ joined)
     /\ IF v1 = "none"
          THEN queue' = Put(queue, guild_id_str, q1) /\ tasks' = tasks
        ELSE IF v1 = "playing"
          THEN /\ Len(q1) < MaxGuildQueue
               /\ queue' = Put(queue, guild_id_str, Append(q1, search))
               /\ tasks' = tasks
        ELSE /\ GuildTaskCount(guild_id) < GuildTaskBound(guild_id)
             /\ queue' = Put(queue, guild_id_str, q1)
             /\ tasks' = Spawn(tasks, GuildTask(guild_id, "handle_play_request",
                                                "resolve", search, None, None))
     /\ UNCHANGED <<current_song, preloaded_songs, playing_locks, has_message>>

\* handle_play_request resumed with the source: voice_client.play and
\* current_song[guild_id_str] = player.
guild_handle_play_request_resolved(t, reconnect_ok) ==
  LET guild_id == t.ctx
      player == from_url(t.req)
      voice_client_ready ==
        voice[guild_id] # "none" \/ (last_voice_channel[guild_id] /\ reconnect_ok)
      v1 == IF voice[guild_id] = "none" THEN "idle" ELSE voice[guild_id]
  IN /\ t.kind = "handle_play_request" /\ t.pc = "resolve"
     /\ tasks' = Finish(tasks, t)
     /\ IF voice_client_ready /\ v1 # "playing"
          THEN /\ voice' = Put(voice, guild_id, "playing")
               /\ current_song' = Put(current_song, str(guild_id), player)
               /\ has_message' = Put(has_message, guild_id, TRUE)
          ELSE UNCHANGED <<voice, current_song, has_message>>
     /\ UNCHANGED <<queue, preloaded_songs, playing_locks, last_voice_channel>>

\* handle_skip_request(ctx) past its error returns.
guild_handle_skip_request(guild_id) ==
  LET guild_id_str == str(guild_id)
  IN /\ voice[guild_id] \in {"playing", "paused"}
     /\ GuildTaskCount(guild_id) < GuildTaskBound(guild_id)
     /\ queue' = Put(queue, guild_id_str,
                     fix_queue(queue[guild_id_str], current_song[guild_id_str]))
     /\ voice' = Put(voice, guild_id, "idle")
     /\ tasks' = Spawn(tasks, GuildPlayNextCall(guild_id))
     /\ UNCHANGED <<current_song, preloaded_songs, playing_locks,
                    last_voice_channel, has_message>>

\* handle_pause_request(ctx) past its error returns.
guild_handle_pause_request(guild_id) ==
  /\ voice[guild_id] = "playing"
  /\ voice' = Put(voice, guild_id, "paused")
  /\ UNCHANGED <<queue, current_song, preloaded_songs, playing_locks,
                 last_voice_channel, has_message, tasks>>

\* handle_resume_request(ctx) past its error returns.
guild_handle_resume_request(guild_id) ==
  /\ voice[guild_id] \in {"idle", "paused"}
  /\ IF voice[guild_id] = "paused"
       THEN voice' = Put(voice, guild_id, "playing") /\ tasks' = tasks
       ELSE /\ GuildTaskCount(guild_id) < GuildTaskBound(guild_id)
            /\ voice' = voice
            /\ tasks' = Spawn(tasks, GuildPlayNextCall(guild_id))
  /\ UNCHANGED <<queue, current_song, preloaded_songs, playing_locks,
                 last_voice_channel, has_message>>

\* handle_stop_request that empties the dictionaries themselves
\* (queues.clear(), current_song.clear()) instead of the guild's entries.
guild_handle_stop_request_clears_all(guild_id) ==
  /\ voice[guild_id] \in {"playing", "paused"}
  /\ GuildTaskCount(guild_id) < GuildTaskBound(guild_id)
  /\ queue' = [k \in DOMAIN queue |-> <<>>]
  /\ current_song' = [k \in DOMAIN current_song |-> None]
  /\ preloaded_songs' = Put(preloaded_songs, guild_id, None)
  /\ voice' = Put(voice, guild_id, "idle")
  /\ tasks' = Spawn(tasks, GuildPlayNextCall(guild_id))
  /\ UNCHANGED <<playing_locks, last_voice_channel, has_message>>

\* handle_stop_request(ctx) past its error returns: queues[guild_id_str]
\* .clear(), current_song[guild_id_str] = None, preloaded_songs[guild_id] =
\* None and voice_client.stop().
guild_handle_stop_request(guild_id) ==
  /\ voice[guild_id] \in {"playing", "paused"}
  /\ GuildTaskCount(guild_id) < GuildTaskBound(guild_id)
  /\ queue' = Put(queue, str(guild_id), <<>>)
  /\ current_song' = Put(current_song, str(guild_id), None)
  /\ preloaded_songs' = Put(preloaded_songs, guild_id, None)
  /\ voice' = Put(voice, guild_id, "idle")
  /\ tasks' = Spawn(tasks, GuildPlayNextCall(guild_id))
  /\ UNCHANGED <<playing_locks, last_voice_channel, has_message>>

\* The `after` callback of the guild's voice client.
guild_after_callback(guild_id, error) ==
  /\ voice[guild_id] = "playing"
  /\ voice' = Put(voice, guild_id, "idle")
  /\ IF error
       THEN tasks' = tasks
       ELSE /\ GuildTaskCount(guild_id) < GuildTaskBound(guild_id)
            /\ tasks' = Spawn(tasks, GuildPlayNextCall(guild_id))
  /\ UNCHANGED <<queue, current_song, preloaded_songs, playing_locks,
                 last_voice_channel, has_message>>

\* on_voice_state_update for the bot leaving its channel in the guild
\* (before.channel.guild.id).
guild_on_voice_state_update(guild_id, callback) ==
  /\ voice[guild_id] # "none"
  /\ voice' = Put(voice, guild_id, "none")
  /\ last_voice_channel' = Put(last_voice_channel, guild_id, TRUE)
  /\ preloaded_songs' = Put(preloaded_songs, guild_id, None)
  /\ playing_locks' = Put(playing_locks, guild_id, FALSE)
  /\ IF callback /\ voice[guild_id] \in {"playing", "paused"}
       THEN /\ GuildTaskCount(guild_id) < GuildTaskBound(guild_id)
            /\ tasks' = Spawn(tasks, GuildPlayNextCall(guild_id))
       ELSE tasks' = tasks
  /\ UNCHANGED <<queue, current_song, has_message>>

\* The `finally` of play_next and the end of the coroutine:
\* playing_locks[guild_id] = False.
guild_play_next_return(t, calls) ==
  /\ playing_locks' = Put(playing_locks, t.ctx, FALSE)
  /\ tasks' = Finish(tasks, t) (+) calls

\* playing_locks[guild_id] = True, and play_next runs to its suspension at pc.
guild_play_next_acquire(t, pc, req, player) ==
  /\ playing_locks' = Put(playing_locks, t.ctx, TRUE)
  /\ tasks' = Spawn(Finish(tasks, t),
                    GuildTask(t.ctx, "play_next", pc, req, None, player))

\* play_next, past the acquisition, suspends again at pc.
guild_play_next_suspend(t, pc, req, player) ==
  /\ playing_locks' = playing_locks
  /\ tasks' = Spawn(Finish(tasks, t),
                    GuildTask(t.ctx, "play_next", pc, req, None, player))

\* play_next(ctx) from its call to its first suspension, on the dictionaries:
\* the test of playing_locks[guild_id], fix_queue(guild_id),
\* current_song[guild_id_str] = None, then preloaded_songs[guild_id] or
\* queues[guild_id_str].popleft().
guild_play_next(t) ==
  LET guild_id == t.ctx
      guild_id_str == str(guild_id)
      cs == current_song[guild_id_str]
      current_url == IF cs # None THEN cs.url ELSE NoUrl
      q1 == fix_queue(queue[guild_id_str], cs)
      player == preloaded_songs[guild_id]
  IN /\ t.kind = "play_next" /\ t.pc = "start"
     /\ BagIn(t, tasks)
     /\ IF playing_locks[guild_id]
          THEN /\ tasks' = Finish(tasks, t)
               /\ UNCHANGED <<queue, current_song, preloaded_songs,
                              playing_locks, voice, last_voice_channel,
                              has_message>>
          ELSE /\ current_song' = Put(current_song, guild_id_str, None)
               /\ UNCHANGED <<voice, last_voice_channel, has_message>>
               /\ IF player # None
                    THEN /\ preloaded_songs' = Put(preloaded_songs, guild_id, None)
                         /\ queue' = Put(queue, guild_id_str, q1)
                         /\ IF current_url # NoUrl /\ player.url = current_url
                              THEN IF has_message[guild_id]
                                     THEN guild_play_next_acquire(t, "dup_end", NoUrl, None)
                                     ELSE guild_play_next_return(t, EmptyBag)
                              ELSE IF voice[guild_id] = "none"
                                THEN guild_play_next_acquire(t, "pre_join", NoUrl, player)
                              ELSE guild_play_next_acquire(t, "pre_sleep", NoUrl, player)
                  ELSE IF q1 # <<>>
                    THEN /\ preloaded_songs' = preloaded_songs
                         /\ queue' = Put(queue, guild_id_str, Tail(q1))
                         /\ IF current_url # NoUrl /\ Head(q1) = current_url
                              THEN guild_play_next_return(
                                     t, SetToBag({GuildPlayNextCall(guild_id)}))
                              ELSE guild_play_next_acquire(t, "resolve", Head(q1), None)
                  ELSE /\ preloaded_songs' = preloaded_songs
                       /\ queue' = Put(queue, guild_id_str, q1)
                       /\ IF has_message[guild_id]
                            THEN guild_play_next_acquire(t, "queue_end", NoUrl, None)
                            ELSE guild_play_next_return(t, EmptyBag)

\* play_next after ctx.invoke(join) in the preloaded branch.
guild_play_next_joined(t, join_ok) ==
  LET guild_id == t.ctx
  IN /\ t.kind = "play_next" /\ t.pc = "pre_join"
     /\ BagIn(t, tasks)
     /\ voice' = Put(voice, guild_id,
                     IF voice[guild_id] = "none" /\ join_ok
                       THEN "idle" ELSE voice[guild_id])
     /\ last_voice_channel' =
          Put(last_voice_channel, guild_id, last_voice_channel[guild_id] \/ join_ok)
     /\ guild_play_next_suspend(t, "pre_sleep", NoUrl, t.player)
     /\ UNCHANGED <<queue, current_song, preloaded_songs, has_message>>

\* play_next after the edit of the "No More Songs" message.
guild_play_next_queue_end(t) ==
  /\ t.kind = "play_next" /\ t.pc \in {"queue_end", "dup_end"}
  /\ BagIn(t, tasks)
  /\ current_song' = IF t.pc = "queue_end"
                       THEN Put(current_song, str(t.ctx), None)
                       ELSE current_song
  /\ guild_play_next_return(t, EmptyBag)
  /\ UNCHANGED <<queue, preloaded_songs, voice, last_voice_channel, has_message>>

\* The `except Exception` handlers of play_next:
\* current_song[guild_id_str] = None and play_next is scheduled again.
guild_play_next_except(t) ==
  /\ current_song' = Put(current_song, str(t.ctx), None)
  /\ guild_play_next_return(
       t, IF t.pc \in {"pre_sleep", "pre_stopwait"}
            THEN SetToBag({GuildPlayNextCall(t.ctx)})
                   (+) SetToBag({GuildPreloadCall(t.ctx)})
            ELSE SetToBag({GuildPlayNextCall(t.ctx)}))

\* voice_client.play(player) and current_song[guild_id_str] = player.
guild_play_next_play(t, player) ==
  /\ voice' = Put(voice, t.ctx, "playing")
  /\ current_song' = Put(current_song, str(t.ctx), player)
  /\ guild_play_next_suspend(t, "after_play", NoUrl, player)

\* play_next after asyncio.sleep(0.5).
guild_play_next_after_sleep(t) ==
  LET guild_id == t.ctx
  IN /\ t.kind = "play_next" /\ t.pc \in {"pre_sleep", "q_sleep"}
     /\ BagIn(t, tasks)
     /\ IF voice[guild_id] = "none"
          THEN /\ guild_play_next_except(t)
               /\ UNCHANGED voice
        ELSE IF voice[guild_id] = "playing"
          THEN /\ voice' = Put(voice, guild_id, "idle")
               /\ playing_locks' = playing_locks
               /\ tasks' = Spawn(Spawn(Finish(tasks, t), GuildPlayNextCall(guild_id)),
                                 GuildTask(guild_id, "play_next",
                                           IF t.pc = "pre_sleep"
                                             THEN "pre_stopwait" ELSE "q_stopwait",
                                           NoUrl, None, t.player))
               /\ current_song' = current_song
        ELSE guild_play_next_play(t, t.player)
     /\ GuildTaskCountIn(tasks', guild_id) <= GuildTaskBound(guild_id)
     /\ UNCHANGED <<queue, preloaded_songs, last_voice_channel, has_message>>

\* play_next after asyncio.sleep(0.2).
guild_play_next_after_stop(t) ==
  LET guild_id == t.ctx
  IN /\ t.kind = "play_next" /\ t.pc \in {"pre_stopwait", "q_stopwait"}
     /\ BagIn(t, tasks)
     /\ IF voice[guild_id] = "none" /\ t.pc = "q_stopwait"
          THEN /\ IF last_voice_channel[guild_id]
                    THEN guild_play_next_suspend(t, "connect2", NoUrl, t.player)
                    ELSE guild_play_next_return(
                           t, SetToBag({GuildPlayNextCall(guild_id)}))
               /\ UNCHANGED <<voice, current_song>>
        ELSE IF voice[guild_id] \in {"none", "playing"}
          THEN /\ guild_play_next_except(t)
               /\ UNCHANGED voice
        ELSE guild_play_next_play(t, t.player)
     /\ GuildTaskCountIn(tasks', guild_id) <= GuildTaskBound(guild_id)
     /\ UNCHANGED <<queue, preloaded_songs, last_voice_channel, has_message>>

\* play_next resumed with the source of next_url, then
\* ensure_voice_connection(ctx).
guild_play_next_resolved(t) ==
  LET guild_id == t.ctx
  IN /\ t.kind = "play_next" /\ t.pc = "resolve"
     /\ BagIn(t, tasks)
     /\ IF voice[guild_id] # "none"
          THEN guild_play_next_suspend(t, "q_sleep", NoUrl, from_url(t.req))
        ELSE IF last_voice_channel[guild_id]
          THEN guild_play_next_suspend(t, "connect1", NoUrl, from_url(t.req))
        ELSE guild_play_next_return(t, SetToBag({GuildPlayNextCall(guild_id)}))
     /\ UNCHANGED <<queue, current_song, preloaded_songs, voice,
                    last_voice_channel, has_message>>

\* play_next resumed with YTDLError.
guild_play_next_failed(t, err) ==
  LET guild_id == t.ctx
  IN /\ t.kind = "play_next" /\ t.pc = "resolve"
     /\ BagIn(t, tasks)
     /\ current_song' = Put(current_song, str(guild_id), None)
     /\ guild_play_next_return(
          t, IF queue[str(guild_id)] # <<>> /\ err \in {"format", "removed"}
               THEN SetToBag({GuildPlayNextCall(guild_id)})
                      (+) SetToBag({GuildPlayNextCall(guild_id)})
               ELSE SetToBag({GuildPlayNextCall(guild_id)}))
     /\ GuildTaskCountIn(tasks', guild_id) <= GuildTaskBound(guild_id)
     /\ UNCHANGED <<queue, preloaded_songs, voice, last_voice_channel,
                    has_message>>

\* ensure_voice_connection(ctx) returning inside play_next.
guild_play_next_connected(t, ok) ==
  LET guild_id == t.ctx
      v1 == IF voice[guild_id] = "none" THEN "idle" ELSE voice[guild_id]
  IN /\ t.kind = "play_next" /\ t.pc \in {"connect1", "connect2"}
     /\ BagIn(t, tasks)
     /\ IF ~(ok \/ voice[guild_id] # "none")
          THEN /\ guild_play_next_return(t, SetToBag({GuildPlayNextCall(guild_id)}))
               /\ UNCHANGED <<voice, current_song>>
        ELSE IF t.pc = "connect1"
          THEN /\ voice' = Put(voice, guild_id, v1)
               /\ guild_play_next_suspend(t, "q_sleep", NoUrl, t.player)
               /\ UNCHANGED current_song
        ELSE IF v1 = "playing"
          THEN /\ guild_play_next_except(t)
               /\ UNCHANGED voice
        ELSE guild_play_next_play(t, t.player)
     /\ UNCHANGED <<queue, preloaded_songs, last_voice_channel, has_message>>

\* play_next after update_music_message: current_song_message[guild_id] is
\* set, preload_next_song is scheduled and the call returns.
guild_play_next_done(t) ==
  /\ t.kind = "play_next" /\ t.pc = "after_play"
  /\ BagIn(t, tasks)
  /\ has_message' = Put(has_message, t.ctx, TRUE)
  /\ guild_play_next_return(t, SetToBag({GuildPreloadCall(t.ctx)}))
  /\ UNCHANGED <<queue, current_song, preloaded_songs, voice, last_voice_channel>>

\* preload_next_song(ctx) up to the resolver.
guild_preload_next_song(t) ==
  LET guild_id == t.ctx
      guild_id_str == str(guild_id)
      q == queue[guild_id_str]
      cs == current_song[guild_id_str]
  IN /\ t.kind = "preload_next_song" /\ t.pc = "start"
     /\ BagIn(t, tasks)
     /\ IF preloaded_songs[guild_id] # None \/ q = <<>>
          THEN queue' = queue /\ tasks' = Finish(tasks, t)
        ELSE IF cs # None /\ cs.url = Head(q)
          THEN /\ queue' = Put(queue, guild_id_str, Tail(q))
               /\ tasks' = IF Tail(q) # <<>>
                             THEN Spawn(Finish(tasks, t),
                                        GuildTask(guild_id, "preload_next_song",
                                                  "resolve", Head(Tail(q)), cs, None))
                             ELSE Finish(tasks, t)
        ELSE /\ queue' = queue
             /\ tasks' = Spawn(Finish(tasks, t),
                               GuildTask(guild_id, "preload_next_song", "resolve",
                                         Head(q), cs, None))
     /\ UNCHANGED <<current_song, preloaded_songs, playing_locks, voice,
                    last_voice_channel, has_message>>

\* preload_next_song resumed by the resolver:
\* preloaded_songs[guild_id] = player.
guild_preload_next_song_resolved(t, ok) ==
  LET player == from_url(t.req)
  IN /\ t.kind = "preload_next_song" /\ t.pc = "resolve"
     /\ BagIn(t, tasks)
     /\ tasks' = Finish(tasks, t)
     /\ IF ok /\ ~(t.current_song_obj # None
                   /\ t.current_song_obj.title = player.title)
          THEN preloaded_songs' = Put(preloaded_songs, t.ctx, player)
          ELSE preloaded_songs' = preloaded_songs
     /\ UNCHANGED <<queue, current_song, playing_locks, voice,
                    last_voice_channel, has_message>>

\* An operation of one guild: a command or an event for it, or a step of a
\* coroutine whose ctx is of it.
GuildStep(guild_id) ==
  \/ \E search \in GuildInputs(guild_id), join_ok \in BOOLEAN :
       guild_handle_play_request(guild_id, search, join_ok)
  \/ guild_handle_skip_request(guild_id)
  \/ guild_handle_pause_request(guild_id)
  \/ guild_handle_resume_request(guild_id)
  \/ guild_handle_stop_request(guild_id)
  \/ \E error \in BOOLEAN : guild_after_callback(guild_id, error)
  \/ \E callback \in BOOLEAN : guild_on_voice_state_update(guild_id, callback)
  \/ \E t \in {u \in BagToSet(tasks) : u.ctx = guild_id}, reconnect_ok \in BOOLEAN :
       guild_handle_play_request_resolved(t, reconnect_ok)
  \/ \E t \in {u \in BagToSet(tasks) : u.ctx = guild_id} : guild_play_next(t)
  \/ \E t \in {u \in BagToSet(tasks) : u.ctx = guild_id}, join_ok \in BOOLEAN :
       guild_play_next_joined(t, join_ok)
  \/ \E t \in {u \in BagToSet(tasks) : u.ctx = guild_id} : guild_play_next_queue_end(t)
  \/ \E t \in {u \in BagToSet(tasks) : u.ctx = guild_id} : guild_play_next_after_sleep(t)
  \/ \E t \in {u \in BagToSet(tasks) : u.ctx = guild_id} : guild_play_next_after_stop(t)
  \/ \E t \in {u \in BagToSet(tasks) : u.ctx = guild_id} : guild_play_next_resolved(t)
  \/ \E t \in {u \in BagToSet(tasks) : u.ctx = guild_id}, err \in ErrKinds :
       guild_play_next_failed(t, err)
  \/ \E t \in {u \in BagToSet(tasks) : u.ctx = guild_id}, ok \in BOOLEAN :
       guild_play_next_connected(t, ok)
  \/ \E t \in {u \in BagToSet(tasks) : u.ctx = guild_id} : guild_play_next_done(t)
  \/ \E t \in {u \in BagToSet(tasks) : u.ctx = guild_id} : guild_preload_next_song(t)
  \/ \E t \in {u \in BagToSet(tasks) : u.ctx = guild_id}, ok \in BOOLEAN :
       guild_preload_next_song_resolved(t, ok)

GuildNext == \E guild_id \in Guilds : GuildStep(guild_id)

GuildSpec == GuildInit /\ [][GuildNext]_vars

\* The reference of the unit tests (test_queue_duplicate_removal).
RECURSIVE remove_duplicates_from(_, _, _)
remove_duplicates_from(q, current_song_url, unique_urls) ==
  IF q = <<>> THEN <<>>
  ELSE IF current_song_url # NoUrl /\ Head(q) = current_song_url
    THEN remove_duplicates_from(Tail(q), current_song_url, unique_urls)
  ELSE IF Head(q) \notin unique_urls
    THEN <<Head(q)>> \o remove_duplicates_from(Tail(q), current_song_url,
                                               unique_urls \cup {Head(q)})
  ELSE remove_duplicates_from(Tail(q), current_song_url, unique_urls)

remove_duplicates(q, current_song_url) ==
  remove_duplicates_from(q, current_song_url, {})

\* =================================================================== claims
CurrentUrl == IF current_song # None THEN current_song.url ELSE NoUrl
NoDuplicates(q) == \A i, j \in 1..Len(q) : i # j => q[i] # q[j]

\* A transition in flight: play_next past its lock check, the start branch of
\* handle_play_request, the first-song start of handle_playlist.
IsTransition(t) ==
  \/ t.kind = "play_next" /\ t.pc # "start"
  \/ t.kind \in {"handle_play_request", "handle_playlist"}
TransitionsInFlight == SumCopies({t \in Pending : IsTransition(t)}, tasks)

\* C1: in every reachable state at most one transition is in flight.
C1_AtMostOneTransition == TransitionsInFlight <= 1

LockHeldOnlyInFlight ==
  playing_locks => \E t \in Pending : t.kind = "play_next" /\ t.pc # "start"
C6_QueueAdvances ==
  [][\A t \in Pending :
       (/\ play_next(t)
        /\ ~playing_locks
        /\ voice = "idle"
        /\ current_song # None
        /\ TransitionsInFlight = 0
        /\ fix_queue(queue, current_song) # <<>>)
       => queue' = Tail(fix_queue(queue, current_song))]_vars

\* C7: handle_play_request on a client that is playing starts nothing: the
\* current song, the voice client and the coroutines are unchanged and the
\* request becomes the last entry of the normalized queue.
C7_EnqueueWhilePlaying ==
  [][\A search \in PlayInputs, join_ok \in BOOLEAN :
       (is_playing /\ handle_play_request(search, join_ok))
       => /\ current_song' = current_song
          /\ voice' = voice
          /\ tasks' = tasks
          /\ queue' = Append(fix_queue(queue, current_song), search)]_vars
\* The same request was appended twice while a song was playing.
C7_Witness ==
  /\ is_playing
  /\ current_song # None
  /\ queue = <<"A", "A">>

\* Idle: no current song, no voice activity, nothing in flight.
IdleState ==
  /\ current_song = None
  /\ voice \in {"none", "idle"}
  /\ tasks = EmptyBag
  /\ ~playing_locks

\* The request step of C8: from Idle, a play request that has a voice client
\* resolves its track and appends nothing; q is the queue it must leave.
C8_RequestStep(q) ==
  \A search \in PlayInputs, join_ok \in BOOLEAN :
    (IdleState /\ (voice # "none" \/ join_ok)
       /\ handle_play_request(search, join_ok))
    => /\ tasks' = SetToBag({Task("handle_play_request", "resolve", search,
                                  None, None)})
       /\ current_song' = None
       /\ queue' = q
\* The resolution step of C8: the resolved request of the only coroutine, on
\* an idle client, is started and becomes current_song; the queue is kept.
C8_ResolutionStep ==
  \A t \in Pending, reconnect_ok \in BOOLEAN :
    (/\ tasks = SetToBag({t})
     /\ voice = "idle" /\ current_song = None /\ ~playing_locks
     /\ handle_play_request_resolved(t, reconnect_ok))
    => /\ voice' = "playing"
       /\ current_song' = from_url(t.req)
       /\ queue' = queue
       /\ tasks' = EmptyBag

C9_Original ==
  LET o == handle_stop_outcome
  IN /\ o.queue = <<>>
     /\ o.current_song = None
     /\ o.preloaded_songs = None
     /\ o.voice \notin {"playing", "paused"}
\* C9 (amended): called while a song is playing or paused, handle_stop_request
\* leaves an empty queue, no current song, no preload and an idle client;
\* called in any other state it returns an error and changes nothing.
C9_Amended ==
  LET o == handle_stop_outcome
  IN IF voice # "none" /\ (is_playing \/ is_paused)
       THEN /\ o.result = "Stopped"
            /\ o.queue = <<>>
            /\ o.current_song = None
            /\ o.preloaded_songs = None
            /\ o.voice = "idle"
       ELSE /\ o.result = "Error"
            /\ o.queue = queue
            /\ o.current_song = current_song
            /\ o.preloaded_songs = preloaded_songs
            /\ o.voice = voice
\* stop is accepted with a queue, a current song and a preload to discard.
C9_Witness ==
  /\ is_playing
  /\ queue # <<>>
  /\ current_song # None
  /\ preloaded_songs # None
  /\ handle_stop_outcome.result = "Stopped"

\* C10: the result of a resolution that was in flight when a stop or skip
\* was carried out is discarded: the start branch of handle_play_request and
\* of handle_playlist start nothing with it, and play_next does not go on to
\* play it.
C10_StaleResultDiscarded ==
  [][\A t \in Pending :
       t.stale =>
         /\ \A reconnect_ok \in BOOLEAN :
              handle_play_request_resolved(t, reconnect_ok)
                => UNCHANGED <<voice, current_song>>
         /\ \A ok \in BOOLEAN :
              handle_playlist_resolved(t, ok)
                => UNCHANGED <<voice, current_song>>
         /\ play_next_resolved(t)
              => \A pc \in {"q_sleep", "connect1"} :
                   LET u == Task("play_next", pc, NoUrl, None, from_url(t.req))
                   IN CopiesIn(u, tasks') = CopiesIn(u, tasks)]_vars

\* C11: a preload_next_song that was waiting for the resolver when
\* handle_stop_request cleared the guild does not store what it resolved, so
\* no later play_next can play it.
C11_StoppedPreloadDiscarded ==
  [][\A t \in Pending, ok \in BOOLEAN :
       (t.stale /\ preload_next_song_resolved(t, ok))
       => preloaded_songs' = preloaded_songs]_vars

\* A play_next call honoured after a natural end or a skip: the client is
\* idle, the ended song is still current_song and the call is the only
\* coroutine of the guild.
EndOfTrackCall(t) ==
  /\ play_next(t)
  /\ ~playing_locks
  /\ voice = "idle"
  /\ current_song # None
  /\ tasks = SetToBag({t})

\* The call t has chosen to end in Idle: it returns, or only edits the
\* "No More Songs" message before it returns, and schedules nothing.
EndsIdle(t) ==
  \/ tasks' = Finish(tasks, t)
  \/ \E pc \in {"queue_end", "dup_end"} :
       tasks' = Spawn(Finish(tasks, t), Task("play_next", pc, NoUrl, None, None))

\* C12: a play_next call honoured after a natural end or a skip ends in Idle
\* only if the queue holds no entry other than the ended song and there is no
\* preload other than one of the ended song.
C12_IdleOnlyWhenExhausted ==
  [][\A t \in Pending :
       (EndOfTrackCall(t) /\ EndsIdle(t))
       => /\ remove_duplicates(queue, CurrentUrl) = <<>>
          /\ preloaded_songs = None \/ preloaded_songs.url = CurrentUrl]_vars

\* C13: once a skip has stopped the track of a guild with an empty queue and
\* no preload, the play_next call scheduled by the stop leaves the guild Idle
\* with no current song.  Besides that call, at most the play_next that
\* started the track, suspended in update_music_message, is on the loop.
C13_SkipToIdle ==
  [][\A t \in Pending :
       (/\ play_next(t)
        /\ voice = "idle"
        /\ current_song # None
        /\ queue = <<>>
        /\ preloaded_songs = None
        /\ \A u \in Pending :
             u = t \/ (u.kind = "play_next" /\ u.pc = "after_play"))
       => current_song' = None /\ voice' = "idle"]_vars

\* The guild of C14: the head of a two-entry queue is the current song's URL
\* and the second entry is another track.
HeadIsCurrent ==
  /\ current_song # None
  /\ Len(queue) = 2
  /\ queue[1] = CurrentUrl
  /\ queue[2] # CurrentUrl

C15_DuplicateRejected ==
  [][\A search \in PlayInputs, join_ok \in BOOLEAN :
       (/\ is_playing
        /\ handle_play_request(search, join_ok)
        /\ \/ \E i \in 1..Len(queue) : queue[i] = search
           \/ search = CurrentUrl)
       => queue' = queue]_vars

\* C16: when the resolver fails for the entry play_next popped, the entry
\* stays out of the queue, the other entries keep their order, current_song is
\* cleared, the lock is released and play_next is scheduled again; and a call
\* honoured with no current song ends in Idle only when the normalized queue
\* is empty and nothing is preloaded, otherwise it goes on with the next entry.
C16_FailureAdvances ==
  [][\A t \in Pending :
       /\ \A err \in ErrKinds :
            play_next_failed(t, err)
            => /\ queue' = queue
               /\ current_song' = None
               /\ ~playing_locks'
               /\ CopiesIn(PlayNextCall, tasks') > CopiesIn(PlayNextCall, tasks)
               /\ \A u \in BagToSet(tasks') : ~(u.kind = "play_next" /\ u.pc = "resolve"
                                                /\ u.req = t.req /\ ~BagIn(u, tasks))
       /\ (play_next(t) /\ ~playing_locks /\ current_song = None /\ EndsIdle(t))
          => /\ fix_queue(queue, current_song) = <<>>
             /\ preloaded_songs = None]_vars
\* The resolver failed with entries left: both calls of the handler are
\* scheduled, nothing is current and the lock is free.
C16_Witness ==
  /\ queue # <<>>
  /\ current_song = None
  /\ ~playing_locks
  /\ tasks = SetToBag({PlayNextCall}) (+) SetToBag({PlayNextCall})

\* The end of the chain: nothing is scheduled, nothing is current, the queue
\* is empty and the lock is free.
RetryDone ==
  /\ tasks = EmptyBag
  /\ current_song = None
  /\ queue = <<>>
  /\ ~playing_locks

\* C17: when every resolution fails, each resolution play_next starts has
\* taken one entry out of the queue, nothing puts an entry back or schedules
\* another preload, and the chain ends for good with an empty queue, no
\* current song, the lock free and nothing scheduled.
C17_RetriesBounded ==
  /\ [][/\ Len(queue') <= Len(queue)
        /\ CopiesIn(PreloadCall, tasks') <= CopiesIn(PreloadCall, tasks)
        /\ \A u \in BagToSet(tasks') :
             (u.kind = "play_next" /\ u.pc = "resolve"
                /\ CopiesIn(u, tasks') > CopiesIn(u, tasks))
             => Len(queue') < Len(queue)]_vars
  /\ <>[]RetryDone
\* A resolution has failed with entries left: the handler has scheduled
\* play_next twice.
C17_Witness ==
  /\ queue # <<>>
  /\ current_song = None
  /\ ~playing_locks
  /\ CopiesIn(PlayNextCall, tasks) = 2

\* C18: in every reachable state a preloaded track, if present, is what the
\* resolver returns for the head of the queue.
C18_PreloadIsHead ==
  preloaded_songs # None
    => queue # <<>> /\ preloaded_songs = from_url(Head(queue))

\* C19: an honoured play_next goes on to play the preloaded track only if that
\* track is what the resolver returns for the head of the normalized queue.
C19_PreloadMatchesHead ==
  [][\A t \in Pending :
       (/\ play_next(t)
        /\ ~playing_locks
        /\ \E pc \in {"pre_join", "pre_sleep"} :
             tasks' = Spawn(Finish(tasks, t),
                            Task("play_next", pc, NoUrl, None, preloaded_songs)))
       => LET q1 == fix_queue(queue, current_song)
          IN q1 # <<>> /\ preloaded_songs = from_url(Head(q1))]_vars

\* C20: every path that starts a track and sets current_song schedules
\* preload_next_song: the start branch of handle_play_request, the first-song
\* start of handle_playlist, and play_next once it has started its track.
C20_PreloadScheduled ==
  [][\A t \in Pending :
       /\ \A reconnect_ok \in BOOLEAN :
            (handle_play_request_resolved(t, reconnect_ok)
               /\ current_song' = from_url(t.req) /\ voice' = "playing"
               /\ voice # "playing")
            => CopiesIn(PreloadCall, tasks') > CopiesIn(PreloadCall, tasks)
       /\ \A ok \in BOOLEAN :
            (handle_playlist_resolved(t, ok)
               /\ current_song' = from_url(t.req) /\ voice' = "playing"
               /\ voice # "playing")
            => CopiesIn(PreloadCall, tasks') > CopiesIn(PreloadCall, tasks)
       /\ play_next_done(t)
            => CopiesIn(PreloadCall, tasks') > CopiesIn(PreloadCall, tasks)]_vars

\* The steps of the activities that never take playing_locks: the play and
\* playlist commands, stop, preload_next_song and the voice state handler.
UnguardedStep ==
  \/ \E search \in PlayInputs, join_ok \in BOOLEAN : handle_play_request(search, join_ok)
  \/ \E t \in Pending, reconnect_ok \in BOOLEAN : handle_play_request_resolved(t, reconnect_ok)
  \/ \E entries \in Playlists, join_ok \in BOOLEAN : handle_playlist(entries, join_ok)
  \/ \E t \in Pending, ok \in BOOLEAN : handle_playlist_resolved(t, ok)
  \/ handle_stop_request
  \/ \E t \in Pending : preload_next_song(t)
  \/ \E t \in Pending, ok \in BOOLEAN : preload_next_song_resolved(t, ok)
  \/ \E callback \in BOOLEAN : on_voice_state_update(callback)

\* C21: the queue, current_song and the preload change only in steps of the
\* activity that holds playing_locks: no step of handle_play_request,
\* handle_playlist, handle_stop_request, preload_next_song or the voice state
\* handler, none of which takes the lock, changes any of them.
C21_MutatedUnderGuard ==
  [][UnguardedStep => UNCHANGED <<queue, current_song, preloaded_songs>>]_vars

\* The play_next calls that are past their lock check.
PlayNextInFlight ==
  BagCardinality([t \in {u \in Pending : u.kind = "play_next" /\ u.pc # "start"}
                    |-> CopiesIn(t, tasks)])

\* C22: the `after` callback of voice_client.play runs none of the transition
\* logic: without an error it adds one play_next call to the loop, with one it
\* adds nothing, and it changes neither the queue, current_song, the preload
\* nor the lock.  The transition logic is entered only by a call taken from
\* the loop while the lock is free, and a play_next that leaves the loop,
\* whatever it has scheduled, has released the lock.
C22_CallbackOnlySchedules ==
  [][/\ \A error \in BOOLEAN :
          after_callback(error)
          => /\ UNCHANGED <<queue, current_song, preloaded_songs, playing_locks>>
             /\ tasks' = IF error THEN tasks ELSE Spawn(tasks, PlayNextCall)
     /\ tasks' # tasks
          => /\ PlayNextInFlight' > PlayNextInFlight
                  => /\ ~playing_locks
                     /\ PlayNextInFlight' = PlayNextInFlight + 1
                     /\ \E t \in Pending : play_next(t)
             /\ PlayNextInFlight' < PlayNextInFlight => ~playing_locks']_vars
\* A track has ended by itself: the callback has left one play_next call on
\* the loop and the ended song is still current_song.
C22_Witness ==
  /\ voice = "idle"
  /\ current_song # None
  /\ ~playing_locks
  /\ has_message
  /\ preloaded_songs = None
  /\ queue # <<>>
  /\ tasks = SetToBag({PlayNextCall})

\* C23: whenever no coroutine of the guild is scheduled or suspended, the lock
\* is free and current_song is set exactly when the voice client is playing
\* or paused.
C23_SettledStateDefined ==
  tasks = EmptyBag
    => /\ ~playing_locks
       /\ current_song # None <=> (is_playing \/ is_paused)

\* C24: once the voice state handler has run for the bot leaving its channel,
\* current_song is None, the preload is None, the lock is free and the channel
\* is stored in last_voice_channel.
C24_DisconnectReleases ==
  [][\A callback \in BOOLEAN :
       on_voice_state_update(callback)
       => /\ current_song' = None
          /\ preloaded_songs' = None
          /\ ~playing_locks'
          /\ last_voice_channel']_vars

\* asyncio.create_task(reconnect_and_resume(fake_ctx))
ReconnectCall == Task("reconnect_and_resume", "start", NoUrl, None, None)

\* C25: the voice state handler, run for the bot leaving its channel,
\* schedules reconnect_and_resume when the queue is non-empty and does not
\* schedule it when the queue is empty.
C25_ReconnectScheduled ==
  [][\A callback \in BOOLEAN :
       on_voice_state_update(callback)
       => (queue # <<>>
             <=> CopiesIn(ReconnectCall, tasks') > CopiesIn(ReconnectCall, tasks))]_vars

\* The channel.connect calls made so far by the ensure_voice_connection calls
\* on the loop, and those the delayed_reconnect_attempt coroutines are in.
ConnectsOf(t) ==
  IF t.kind = "ensure_voice_connection" THEN t.connects
  ELSE IF t.kind = "delayed_reconnect_attempt" /\ t.pc = "connect" THEN 1
  ELSE 0
RECURSIVE SumConnects(_)
SumConnects(S) ==
  IF S = {} THEN 0
  ELSE LET t == CHOOSE x \in S : TRUE
       IN ConnectsOf(t) * CopiesIn(t, tasks) + SumConnects(S \ {t})

\* C26: one call of ensure_voice_connection and everything it schedules make
\* at most max_retries connect attempts, an attempt that follows a failed one
\* starts no sooner than 2 ** attempt seconds after it, and False is returned
\* only after the last attempt.
C26_ReconnectBounded ==
  /\ SumConnects(Pending) <= max_retries
  /\ \A t \in Pending :
       t.kind = "ensure_voice_connection"
       => /\ (t.pc = "connect" /\ t.attempt > 0 /\ t.conn_attempt = 0)
               => t.wait >= 2 ^ (t.attempt - 1)
          /\ (t.result = "False" /\ last_voice_channel)
               => t.attempt = max_retries - 1

\* C27: once the bot has been disconnected while A played with B queued, the
\* guild comes to play B with an empty queue.
C27_ResumesQueueHead ==
  (voice = "none") ~> (is_playing /\ current_song = from_url("B") /\ queue = <<>>)

\* The step of play_next in which ensure_voice_connection returns False: at
\* once with no stored channel, or after its last attempt has failed.
ConnectionExhausted(t) ==
  /\ voice = "none"
  /\ \/ play_next_connected(t, FALSE)
     \/ ~last_voice_channel /\ play_next_resolved(t)

\* C28: when ensure_voice_connection returns False inside play_next, the
\* failure is terminal: the queue is left as it is, the lock is released,
\* nothing is current and no further transition is scheduled.
C28_ExhaustedIsTerminal ==
  [][\A t \in Pending :
       ConnectionExhausted(t)
       => /\ queue' = queue
          /\ ~playing_locks'
          /\ current_song' = None
          /\ tasks' = Finish(tasks, t)]_vars

\* C29: pause is carried out only on a playing client, which it leaves paused
\* with the same current song, queue, preload and coroutines; resume on a
\* paused client leaves it playing with all of them unchanged, so pause
\* followed by resume gives back the state before the pause; with nothing
\* playing, pause returns an error and changes nothing.
C29_PauseResumeRoundTrip ==
  [][/\ handle_pause_request
          => /\ is_playing
             /\ handle_pause_result = "Song paused."
             /\ voice' = "paused"
             /\ UNCHANGED <<queue, current_song, preloaded_songs, playing_locks,
                            last_voice_channel, has_message, tasks>>
     /\ (is_paused /\ handle_resume_request)
          => /\ voice' = "playing"
             /\ UNCHANGED <<queue, current_song, preloaded_songs, playing_locks,
                            last_voice_channel, has_message, tasks>>
     /\ ~is_playing
          => /\ handle_pause_result \in
                  {"Error: I'm not connected to a voice channel.",
                   "Error: Nothing is playing right now."}
             /\ ~ENABLED handle_pause_request]_vars
\* A track was paused with another one queued.
C29_Witness ==
  /\ is_paused
  /\ current_song # None
  /\ queue # <<>>
  /\ tasks = EmptyBag

\* C30: resume on a voice client that is neither paused nor playing schedules
\* exactly one play_next call and changes nothing else; that call is the same
\* as any other scheduled play_next, and when it is taken from the loop while
\* the lock is held it ends without changing the queue, current_song, the
\* preload or the lock.
C30_ResumeSchedulesNext ==
  [][/\ (voice = "idle" /\ handle_resume_request)
          => /\ tasks' = Spawn(tasks, PlayNextCall)
             /\ UNCHANGED <<queue, current_song, preloaded_songs, playing_locks,
                            voice, last_voice_channel, has_message>>
     /\ \A t \in Pending :
          (playing_locks /\ play_next(t))
          => /\ t = PlayNextCall
             /\ UNCHANGED <<queue, current_song, preloaded_songs, playing_locks,
                            voice>>]_vars
\* resume was issued on an idle guild with nothing to resume: one play_next
\* call is on the loop.
C30_Witness ==
  /\ voice = "idle"
  /\ current_song = None
  /\ queue = <<>>
  /\ ~playing_locks
  /\ ~has_message
  /\ preloaded_songs = None
  /\ tasks = SetToBag({PlayNextCall})


\* ---------------------------------------------------------------------- C31
\* The error strings the control handlers return for a user-input error.
InputErrors ==
  {"Error: I'm not connected to a voice channel.",
   "Error: Nothing is playing right now."}

\* C31: skip, stop or pause asked of a bot with no voice client, or with a
\* voice client that plays nothing, returns an "Error: ..." string and changes
\* nothing: the handlers take no step past their error returns, so the queue,
\* current_song, the preload, the lock and the voice client stay as they were.
C31_InputErrorNoMutation ==
  /\ (voice = "none" \/ (~is_playing /\ ~is_paused))
       => /\ handle_skip_result \in InputErrors
          /\ ~ENABLED handle_skip_request
          /\ handle_stop_outcome =
               [queue |-> queue, current_song |-> current_song,
                preloaded_songs |-> preloaded_songs, voice |-> voice,
                result |-> "Error"]
          /\ ~ENABLED (handle_stop_request /\ vars' # vars)
  /\ (voice = "none" \/ ~is_playing)
       => /\ handle_pause_result \in
               InputErrors \cup {"Error: Song is already paused."}
          /\ ~ENABLED handle_pause_request

\* A connected bot that plays nothing while it still holds a queue, a current
\* song and a preloaded song: every one of the three commands is an input
\* error here and there is state an erring handler could have destroyed.
C31_Witness ==
  /\ voice = "idle"
  /\ queue # <<>>
  /\ current_song # None
  /\ preloaded_songs # None
  /\ TaskCount < MaxTasks


\* ---------------------------------------------------------------------- C32
\* The entries of guild g in the five dictionaries.
GuildSession(g) ==
  <<queue[str(g)], current_song[str(g)], preloaded_songs[g], playing_locks[g],
    last_voice_channel[g]>>

\* C32: an operation performed for one guild (play, skip, pause, resume, stop,
\* a voice callback, the disconnect handler, a step of play_next or of
\* preload_next_song) leaves the queue, current_song, the preload, the lock
\* and the stored channel of every other guild as they were.
C32_GuildsIsolated ==
  [][\A g1 \in Guilds :
       \/ \A g2 \in Guilds \ {g1} : GuildSession(g2)' = GuildSession(g2)
       \/ ~GuildStep(g1)]_vars

\* Guild 1 has been stopped (its queue and current_song are cleared and the
\* play_next of the stop is scheduled) while guild 2 is playing with a queue
\* and a stored channel of its own.
C32_Witness ==
  /\ voice[1] = "idle" /\ current_song["1"] = None /\ queue["1"] = <<>>
  /\ voice[2] = "playing" /\ current_song["2"] = from_url("B")
  /\ queue["2"] = <<"B">> /\ last_voice_channel[2]
  /\ \E t \in BagToSet(tasks) : t.ctx = 1 /\ t.kind = "play_next"


\* ---------------------------------------------------------------------- C33
\* C33: fix_queue is idempotent: for every queue and every current song,
\* running it on its own result with the same current song changes nothing.
C33_FixQueueIdempotent ==
  LET r == fix_queue(queue, current_song)
  IN fix_queue(r, current_song) = r

\* A queue from which fix_queue removes both a repeated entry and a later
\* copy of the current song, while it keeps the head that equals the current
\* song.
C33_Witness ==
  /\ current_song # None
  /\ Len(queue) = 3
  /\ queue[1] = CurrentUrl
  /\ queue[2] = CurrentUrl
  /\ queue[3] # CurrentUrl
  /\ Len(fix_queue(queue, current_song)) = 2


\* ---------------------------------------------------------------------- C34
\* Every entry of the queue is the URL of the current song.
AllDuplicate ==
  /\ current_song # None
  /\ \A i \in 1..Len(queue) : queue[i] = CurrentUrl

C35_PlaylistQueuedOnce ==
  [][\A entries \in Playlists, join_ok \in BOOLEAN :
       handle_playlist(entries, join_ok)
         => /\ NoDuplicates(queue')
            /\ \A i \in 1..Len(entries) :
                 \E j \in 1..Len(queue') : queue'[j] = entries[i]]_vars


\* ---------------------------------------------------------------------- C36
\* handle_playlist on a playing guild starts nothing: no coroutine is
\* scheduled or resumed, and current_song, the preload, the lock and the
\* voice client stay as they are.
PlaylistStartsNothing ==
  UNCHANGED <<tasks, current_song, preloaded_songs, playing_locks, voice>>

C39_EnqueueWhilePaused ==
  [][/\ \A search \in PlayInputs, join_ok \in BOOLEAN :
          (is_paused /\ handle_play_request(search, join_ok))
            => /\ queue' = Append(fix_queue(queue, current_song), search)
               /\ UNCHANGED <<tasks, current_song, voice>>
     /\ \A t \in Pending, reconnect_ok \in BOOLEAN :
          (is_paused /\ handle_play_request_resolved(t, reconnect_ok))
            => UNCHANGED <<current_song, voice>>]_vars


\* ---------------------------------------------------------------------- C37
\* C37: play_from_index with a valid index makes the queue the selected
\* entry followed by the entries after it, and the next track that starts is
\* the selected entry, with the queue then holding exactly the entries that
\* followed it; once the request's transition has run its course a track is
\* playing.  With an invalid index the request is answered with an error and
\* the queue is unchanged.
C37_PlaysSelected ==
  /\ [][/\ \A index \in IndexInputs :
             play_from_index(index)
               => IF index >= 0 /\ index < Len(queue)
                    THEN queue' = SubSeq(queue, index + 1, Len(queue))
                    ELSE /\ play_from_index_result(index) = "Invalid queue index"
                         /\ queue' = queue
        /\ \A r \in IndexRequests :
             (~is_playing /\ is_playing')
               => /\ current_song' = from_url(r.selected_url)
                  /\ queue' = r.following]_vars
  /\ [](\A r \in IndexRequests : tasks = SetToBag({r}) => is_playing)


\* ---------------------------------------------------------------------- C40
\* C40: one accepted enqueue yields at most one playback.  In a session with
\* one queue entry, a URL or a search text, and no stop, once the track
\* started from that entry has ended or been skipped (the client is idle with
\* that track still the current song) no track is started any more.
EntryEnded == voice = "idle" /\ current_song = from_url("A")
C40_PlayedOnce == [](EntryEnded => [](~is_playing))

====
